---- MODULE Spec2Model ----
(***************************************************************************)
(* Box nesting system: the nesting engine (placement search, per-objective *)
(* motif cache, grid bounding box) and the production layout optimizer of  *)
(* the tile tab.                                                           *)
(*                                                                         *)
(* Lengths are integers: one unit is the search step of the smallest grid. *)
(* A polygon is the set of unit cells <<x, y>> (the square                 *)
(* [x, x+1] x [y, y+1]) that the union of its rectangles covers, which is  *)
(* exact for orthogonal polygons with integer vertices.  With integer      *)
(* lengths the epsilon comparisons of the code (a < b - eps, |a-b| <= eps  *)
(* with 0 < eps < 1) are the strict order and equality.                    *)
(***************************************************************************)
EXTENDS Integers, Sequences, FiniteSets, TLC

\* The absent value (Python None); every optional value of the model is a record.
None == [none |-> TRUE]

Min2(a, b) == IF a <= b THEN a ELSE b
Max2(a, b) == IF a >= b THEN a ELSE b
SetMin(S) == CHOOSE m \in S : \A n \in S : m <= n
SetMax(S) == CHOOSE m \in S : \A n \in S : m >= n

\* The member of a one-element set.
Only(S) == CHOOSE r \in S : TRUE

(***************************************************************************)
(* Geometry parameters of the net (PlanoParams).                           *)
(***************************************************************************)
ScalarFields == {"L", "A", "h", "cIzq", "cDer"}
ArrayFields == {"Tapas", "CSup", "Bases", "CInf"}
Faces == 1..4

\* Values a spin box of the parameter form is moved between in the model.
FieldValues(f) ==
    IF f \in {"L", "A", "h"} THEN {1, 2} ELSE {0, 1}

InitialParams ==
    [L |-> 1, A |-> 1, h |-> 1, cIzq |-> 0, cDer |-> 0,
     Tapas |-> <<1, 0, 0, 0>>, CSup |-> <<0, 0, 0, 0>>,
     Bases |-> <<0, 0, 0, 0>>, CInf |-> <<0, 0, 0, 0>>]

(***************************************************************************)
(* Rectangles <<x, y, w, h>> and polygons (sets of cells).                 *)
(***************************************************************************)
RectCells(r) ==
    {<<x, y>> : x \in r[1]..(r[1] + r[3] - 1), y \in r[2]..(r[2] + r[4] - 1)}

FaceWidth(p, i) == IF i \in {1, 3} THEN p.L ELSE p.A

RECURSIVE FaceX(_, _)
FaceX(p, i) == IF i = 1 THEN p.cIzq ELSE FaceX(p, i - 1) + FaceWidth(p, i - 1)

TopHeight(p) == SetMax({p.Tapas[i] + p.CSup[i] : i \in Faces})

\* The named rectangles of the net: four faces in a row, the flaps of each
\* face above (Tapa, CejaSup) and below (Base, CejaInf), the side flanges.
rects_cm_from_params(p) ==
    LET top == TopHeight(p)
    IN  {<<FaceX(p, i), top, FaceWidth(p, i), p.h>> : i \in Faces}
        \cup {<<FaceX(p, i), top - p.Tapas[i], FaceWidth(p, i), p.Tapas[i]>> : i \in Faces}
        \cup {<<FaceX(p, i), top - p.Tapas[i] - p.CSup[i], FaceWidth(p, i), p.CSup[i]>> : i \in Faces}
        \cup {<<FaceX(p, i), top + p.h, FaceWidth(p, i), p.Bases[i]>> : i \in Faces}
        \cup {<<FaceX(p, i), top + p.h + p.Bases[i], FaceWidth(p, i), p.CInf[i]>> : i \in Faces}
        \cup {<<0, top, p.cIzq, p.h>>,
              <<FaceX(p, 4) + FaceWidth(p, 4), top, p.cDer, p.h>>}

\* OrthoPoly.from_rects_cm: the union of the rectangles.
from_rects_cm(rects) == UNION {RectCells(r) : r \in rects}

build_tile_orthopoly_and_edges_cm(p) == from_rects_cm(rects_cm_from_params(p))

\* OrthoPoly.aabb: <<minx, miny, maxx, maxy>>.
aabb(poly) ==
    <<SetMin({c[1] : c \in poly}), SetMin({c[2] : c \in poly}),
      SetMax({c[1] : c \in poly}) + 1, SetMax({c[2] : c \in poly}) + 1>>

translate(poly, dx, dy) == {<<c[1] + dx, c[2] + dy>> : c \in poly}

\* rotate_point_90cw (x,y) -> (y,-x), rotate_point_180 (x,y) -> (-x,-y),
\* rotate_point_270cw (x,y) -> (-y,x), applied to the corners of a cell.
rotated_copy(poly, rot) ==
    CASE rot = 0 -> poly
      [] rot = 90 -> {<<c[2], -c[1] - 1>> : c \in poly}
      [] rot = 180 -> {<<-c[1] - 1, -c[2] - 1>> : c \in poly}
      [] rot = 270 -> {<<-c[2] - 1, c[1]>> : c \in poly}

\* Rotate, then move the bounding box to the origin.
rotate_and_align_top_left(poly, rot) ==
    Only({ Only({ translate(r, -bb[1], -bb[2]) : bb \in {aabb(r)} })
           : r \in {rotated_copy(poly, rot)} })

Width(poly) == Only({bb[3] - bb[1] : bb \in {aabb(poly)}})
Height(poly) == Only({bb[4] - bb[2] : bb \in {aabb(poly)}})

(***************************************************************************)
(* OrthoPoly as the code stores it: outer, a sequence of points <<x, y>>,  *)
(* and holes, a sequence of such sequences.                                *)
(***************************************************************************)
\* A point turned by a half turn where a quarter turn is asked for.
HalfTurnPoint(pt) == <<-pt[1], -pt[2]>>

rotate_point_90cw(pt) == <<pt[2], -pt[1]>>
rotate_point_180(pt) == <<-pt[1], -pt[2]>>
rotate_point_270cw(pt) == <<-pt[2], pt[1]>>

\* A loop with every point mapped.
MapLoop(loop, F(_)) == [i \in DOMAIN loop |-> F(loop[i])]

\* OrthoPoly.rotated_copy on outer and holes; rot is a multiple of 90.
OrthoPoly_rotated_copy(poly, rot) ==
    CASE rot % 360 = 0 -> [outer |-> poly.outer, holes |-> poly.holes]
      [] rot % 360 = 90 ->
            [outer |-> MapLoop(poly.outer, rotate_point_90cw),
             holes |-> [k \in DOMAIN poly.holes |->
                           MapLoop(poly.holes[k], rotate_point_90cw)]]
      [] rot % 360 = 180 ->
            [outer |-> MapLoop(poly.outer, rotate_point_180),
             holes |-> [k \in DOMAIN poly.holes |->
                           MapLoop(poly.holes[k], rotate_point_180)]]
      [] rot % 360 = 270 ->
            [outer |-> MapLoop(poly.outer, rotate_point_270cw),
             holes |-> [k \in DOMAIN poly.holes |->
                           MapLoop(poly.holes[k], rotate_point_270cw)]]

\* A translation that builds a new polygon value and leaves the object.
TranslateNowhere(poly, dx, dy) == poly

\* OrthoPoly.translate: outer and holes of the object are replaced by the
\* moved loops (the method returns None).
OrthoPoly_translate(poly, dx, dy) ==
    [outer |-> [i \in DOMAIN poly.outer |->
                   <<poly.outer[i][1] + dx, poly.outer[i][2] + dy>>],
     holes |-> [k \in DOMAIN poly.holes |->
                   [i \in DOMAIN poly.holes[k] |->
                       <<poly.holes[k][i][1] + dx, poly.holes[k][i][2] + dy>>]]]

\* OrthoPoly(poly.outer[:], [h[:] for h in poly.holes]): a new object with
\* copies of the loops.
OrthoPoly_copy(poly) == [outer |-> poly.outer, holes |-> poly.holes]

\* OrthoPoly.aabb: min and max over the points of outer.
OrthoPoly_aabb(poly) ==
    <<SetMin({poly.outer[i][1] : i \in DOMAIN poly.outer}),
      SetMin({poly.outer[i][2] : i \in DOMAIN poly.outer}),
      SetMax({poly.outer[i][1] : i \in DOMAIN poly.outer}),
      SetMax({poly.outer[i][2] : i \in DOMAIN poly.outer})>>

\* The sum of the shoelace formula over the first n edges of a loop.
RECURSIVE ShoelaceSum(_, _)
ShoelaceSum(vertices, n) ==
    IF n = 0 THEN 0
    ELSE ShoelaceSum(vertices, n - 1)
         + vertices[n][1] * vertices[(n % Len(vertices)) + 1][2]
         - vertices[(n % Len(vertices)) + 1][1] * vertices[n][2]

Abs(x) == IF x < 0 THEN -x ELSE x

\* polygon_area of calculate_polygon_area: abs(sum) / 2.  The sum is even
\* for a loop with integer points and axis-aligned edges.
polygon_area(vertices) == Abs(ShoelaceSum(vertices, Len(vertices))) \div 2

RECURSIVE HolesArea(_, _)
HolesArea(holes, n) ==
    IF n = 0 THEN 0 ELSE HolesArea(holes, n - 1) + polygon_area(holes[n])

\* calculate_polygon_area: the area of outer minus the areas of the holes.
calculate_polygon_area(poly) ==
    polygon_area(poly.outer) - HolesArea(poly.holes, Len(poly.holes))

(***************************************************************************)
(* Collision test and placement search (geometry.collision and             *)
(* nesting.algorithms).                                                    *)
(***************************************************************************)
\* Morphological offset by delta with mitered joins: every cell within
\* delta of the polygon in both axes.
offset(poly, delta) ==
    {<<c[1] + i, c[2] + j>> : c \in poly, i \in (-delta)..delta, j \in (-delta)..delta}

\* True geometric overlap after inflating one side by the clearance.
polygons_intersect(a, b, clearance_cm) ==
    \E inflated \in {offset(a, clearance_cm)} : \E c \in b : c \in inflated

Objectives == {"width", "height", "area"}

\* The objective key: primary metric first, then the two tie-breakers.
ObjectiveKey(objective, gwidth, gheight, garea) ==
    IF objective = "width" THEN <<gwidth, gheight, garea>>
    ELSE IF objective = "height" THEN <<gheight, gwidth, garea>>
    ELSE <<garea, gwidth, gheight>>

\* key < global_key in the lexicographic order with tolerance.
KeyBetter(key, global_key) ==
    \/ key[1] < global_key[1]
    \/ key[1] = global_key[1] /\ key[2] < global_key[2]
    \/ key[1] = global_key[1] /\ key[2] = global_key[2] /\ key[3] < global_key[3]

\* Offsets lo, lo + step, ... not beyond hi.
GridValues(lo, hi, step) == {v \in lo..hi : (v - lo) % step = 0}

Rotations == <<0, 90, 180, 270>>

\* A tile template of the search: rotation index, aligned polygon, size.
Template(ri, t) ==
    Only({[ri |-> ri, poly |-> t, w |-> tb[3] - tb[1], h |-> tb[4] - tb[2]]
          : tb \in {aabb(t)}})

\* _search_domain_without_bed: x in [minx, maxx + w2], y in [miny - h2, maxy]
\* around the bounding box fb of what is already placed.
SearchDomain(fb, w2, h2, paso_y, paso_x) ==
    GridValues(fb[1], fb[3] + w2, paso_x) \X GridValues(fb[2] - h2, fb[4], paso_y)

\* The collision-free offsets of one template, each with the size of the
\* bounding box of the placed tiles and the template at that offset.
TemplateCandidates(tp, fb, blocked, paso_y, paso_x) ==
    { [ri |-> tp.ri, x |-> xy[1], y |-> xy[2],
       gwidth |-> Max2(fb[3], xy[1] + tp.w) - Min2(fb[1], xy[1]),
       gheight |-> Max2(fb[4], xy[2] + tp.h) - Min2(fb[2], xy[2])]
      : xy \in { o \in SearchDomain(fb, tp.w, tp.h, paso_y, paso_x) :
                   \A c \in tp.poly : <<c[1] + o[1], c[2] + o[2]>> \notin blocked } }

\* The candidates of one placement search around the placed polygon `fixed`.
Candidates(fixed, templates, paso_y, paso_x, clearance_cm) ==
    UNION { UNION { UNION { TemplateCandidates(tp, fb, blocked, paso_y, paso_x)
                            : tp \in templates }
                    : blocked \in {offset(fixed, clearance_cm)} }
            : fb \in {aabb(fixed)} }

\* The members of S with the least f.
MinBy(S, f(_)) ==
    UNION { UNION { {c \in Sv : f(c) = m} : m \in {SetMin({f(c) : c \in Sv})} }
            : Sv \in {S} }

\* The first candidate in scan order (rotation, x, y) among those with the
\* least objective key.
BestCandidate(cands, objective) ==
    LET K1(c) == ObjectiveKey(objective, c.gwidth, c.gheight, c.gwidth * c.gheight)[1]
        K2(c) == ObjectiveKey(objective, c.gwidth, c.gheight, c.gwidth * c.gheight)[2]
        K3(c) == ObjectiveKey(objective, c.gwidth, c.gheight, c.gwidth * c.gheight)[3]
        Ri(c) == c.ri
        X(c) == c.x
        Y(c) == c.y
    IN  Only(MinBy(MinBy(MinBy(MinBy(MinBy(MinBy(cands, K1), K2), K3), Ri), X), Y))

\* A search result: None, or the best candidate with its template.
Placement(cands, templates, objective) ==
    IF cands = {} THEN None
    ELSE Only({ [x |-> b.x, y |-> b.y, rot |-> Rotations[b.ri],
                 poly |-> Only({tp.poly : tp \in {q \in templates : q.ri = b.ri}}),
                 gwidth |-> b.gwidth, gheight |-> b.gheight,
                 garea |-> b.gwidth * b.gheight]
                : b \in {BestCandidate(cands, objective)} })

\* NestingAlgorithms.best_place_second_tile: rotation and offset of the
\* second tile next to the base tile poly1, or None.
best_place_second_tile(polyBase, poly1, paso_y, paso_x, clearance_cm, objective) ==
    Only({ Only({ Placement(cands, templates, objective)
                  : cands \in {Candidates(poly1, templates, paso_y, paso_x, clearance_cm)} })
           : templates \in
               {{Template(ri, rotate_and_align_top_left(polyBase, Rotations[ri]))
                 : ri \in 1..4}} })

\* NestingAlgorithms.best_place_third_tile: offset of the third tile (the
\* base orientation) next to the base tile and the placed second tile.
best_place_third_tile(poly1, poly2, paso_y, paso_x, clearance_cm, objective) ==
    Only({ Only({ Placement(cands, templates, objective)
                  : cands \in {Candidates(poly1 \cup poly2, templates,
                                          paso_y, paso_x, clearance_cm)} })
           : templates \in {{Template(1, poly1)}} })

(***************************************************************************)
(* NestingEngine.calculate_optimal_nesting, the full calculation: both     *)
(* base orientations, second and third tile, the globally best triple.     *)
(***************************************************************************)
BaseOrientations == <<90, 270>>

\* calculate_optimal_nesting calls explored in one behaviour.
MaxCalls == 2

\* The complete three-tile candidate of one orientation from its second
\* and third placements.
ThreeTiles(rot1, poly1, c2, c3) ==
    [rot1 |-> rot1, poly1 |-> poly1,
     dx2 |-> c2.x, dy2 |-> c2.y, rot2 |-> c2.rot, poly2T |-> c2.poly,
     dx3 |-> c3.x, dy3 |-> c3.y, poly3T |-> c3.poly,
     gwidth |-> c3.gwidth, gheight |-> c3.gheight, garea |-> c3.garea]

\* The third-tile stage: the second tile is copied and translated to its
\* offset, then the third is searched against the base and that copy.
ThirdStage(rot1, poly1, c2, paso_y, paso_x, clearance_cm, objective) ==
    Only({ [cand |-> IF c3 = None THEN None ELSE ThreeTiles(rot1, poly1, c2, c3),
            searches |-> 2]
           : c3 \in {best_place_third_tile(poly1, translate(c2.poly, c2.x, c2.y),
                                           paso_y, paso_x, clearance_cm, objective)} })

\* One pass of the loop body for base orientation rot1: the complete
\* candidate (None when a stage finds no placement) and the placement
\* searches run.
OrientationCandidate(polyBase, rot1, paso_y, paso_x, clearance_cm, objective) ==
    Only({ Only({ IF c2 = None THEN [cand |-> None, searches |-> 1]
                  ELSE ThirdStage(rot1, poly1, c2, paso_y, paso_x, clearance_cm, objective)
                  : c2 \in {best_place_second_tile(polyBase, poly1, paso_y, paso_x,
                                                   clearance_cm, objective)} })
           : poly1 \in {rotate_and_align_top_left(polyBase, rot1)} })

\* The comparison with the best solution so far: a later orientation
\* replaces it only when its key is strictly smaller.
GlobalBest(objective, c90, c270) ==
    IF c90 = None THEN c270
    ELSE IF c270 = None THEN c90
    ELSE IF KeyBetter(ObjectiveKey(objective, c270.gwidth, c270.gheight, c270.garea),
                      ObjectiveKey(objective, c90.gwidth, c90.gheight, c90.garea))
         THEN c270 ELSE c90

\* The loop over (90, 270).  best is global_best, None when no orientation
\* gave a complete candidate.
FullCalculation(p, paso_y, paso_x, clearance_cm, objective) ==
    Only({ Only({ [best |-> GlobalBest(objective, o[1].cand, o[2].cand),
                   searches |-> o[1].searches + o[2].searches]
                  : o \in {<<OrientationCandidate(polyBase, BaseOrientations[1],
                                                  paso_y, paso_x, clearance_cm, objective),
                             OrientationCandidate(polyBase, BaseOrientations[2],
                                                  paso_y, paso_x, clearance_cm, objective)>>} })
           : polyBase \in {build_tile_orthopoly_and_edges_cm(p)} })

(***************************************************************************)
(* Inputs of the model.                                                    *)
(***************************************************************************)
\* <<paso_y, paso_x, clearance_cm>> a call is made with.  The last one asks
\* for a clearance larger than any tile of the model, so no placement
\* exists.
SearchParams == {<<1, 1, 0>>, <<2, 2, 1>>, <<1, 1, 7>>}

\* One parameter edit: field f (entry i of an array field) set to v.
SetField(p, f, i, v) ==
    IF f \in ScalarFields THEN [p EXCEPT ![f] = v]
    ELSE [p EXCEPT ![f] = [@ EXCEPT ![i] = v]]

FieldValue(p, f, i) == IF f \in ScalarFields THEN p[f] ELSE p[f][i]

FieldSlots == (ScalarFields \X {1}) \cup (ArrayFields \X Faces)

\* The parameter objects of the model: the template and every object one
\* edit away from it.
ParamsDomain ==
    {InitialParams} \cup
    UNION {{SetField(InitialParams, fs[1], fs[2], v) : v \in FieldValues(fs[1])} :
              fs \in FieldSlots}

\* FullCalculation tabulated over the inputs of the model (the calculation
\* is a pure function of the parameters and the search arguments).
CalculationTable ==
    {<<<<p, sp, objective>>, FullCalculation(p, sp[1], sp[2], sp[3], objective)>> :
        p \in ParamsDomain, sp \in SearchParams, objective \in Objectives}

Calculation(p, paso_y, paso_x, clearance_cm, objective) ==
    (CHOOSE e \in CalculationTable :
        e[1] = <<p, <<paso_y, paso_x, clearance_cm>>, objective>>)[2]


(***************************************************************************)
(* State.                                                                  *)
(***************************************************************************)
VARIABLES
    params,                  \* NestingEngine.params (shared with the forms)
    nesting_cache_width,     \* slot [pattern_data, cache_key] of objective width
    nesting_cache_height,    \* slot [pattern_data, cache_key] of the other objectives
    last_cache_key_width,
    last_cache_key_height,
    last,                    \* the last calculate_optimal_nesting call
    ncalls,                  \* calls made so far
    edited,                  \* a parameter was edited
    sb,                      \* the spin boxes of the TileTab form
    cache_signatures,        \* TileTab._cache_signatures
    layout_width,            \* _calculate_layout_for_objective("width", ...)
    layout_height,           \* _calculate_layout_for_objective("height", ...)
    layout_optimo,           \* what optimizar_layout applied
    call,                    \* the last application of a function to given inputs
    heap,                    \* the OrthoPoly objects: heap[id] is [outer, holes] of id
    polyop,                  \* the last operation on an OrthoPoly object
    ncache,                  \* a NestingCache object of its own
    cop,                     \* the last operation on ncache and its history
    lb,                      \* a run of _calculate_layout_bounds, loop by loop
    search,                  \* a calculate_optimal_nesting call between two event pumps
    workers,                 \* the NestingWorker threads started so far
    active_worker,           \* TileTab._active_worker
    worker_context,          \* TileTab._worker_context
    mainq,                   \* signals queued to the main thread
    wlog                     \* the last step of TileTab or of a worker thread

engineVars == <<params, nesting_cache_width, nesting_cache_height,
                last_cache_key_width, last_cache_key_height, last, ncalls, edited>>

tabVars == <<sb, cache_signatures, layout_width, layout_height, layout_optimo>>

polyVars == <<heap, polyop>>

cacheVars == <<ncache, cop>>

workerVars == <<workers, active_worker, worker_context, mainq, wlog>>

procVars == <<lb, search, workerVars>>

objVars == <<polyVars, cacheVars, procVars>>

unitVars == <<call, objVars>>

vars == <<engineVars, tabVars, unitVars>>

EmptyCache == [pattern_data |-> None, cache_key |-> None]

\* NestingCache.store(value, key) replaces the slot.
CacheStore(pattern_data, cache_key) ==
    [pattern_data |-> pattern_data, cache_key |-> cache_key]

\* NestingCache.is_valid(key): value equality against the stored key.
CacheIsValid(cache, cache_key) == cache.cache_key = cache_key

\* Faulty variant of GenerateCacheKey: the flap heights are left out of
\* the key.
KeyWithoutTapas(p, paso_y, paso_x, clearance_cm, objective) ==
    [L |-> p.L, A |-> p.A, h |-> p.h, cIzq |-> p.cIzq, cDer |-> p.cDer,
     Tapas |-> <<>>, CSup |-> p.CSup, Bases |-> p.Bases, CInf |-> p.CInf,
     paso_y |-> paso_y, paso_x |-> paso_x, clearance_cm |-> clearance_cm,
     objective |-> objective]

\* NestingEngine._generate_cache_key: every geometry parameter, then the
\* search arguments and the objective.
GenerateCacheKey(p, paso_y, paso_x, clearance_cm, objective) ==
    [L |-> p.L, A |-> p.A, h |-> p.h, cIzq |-> p.cIzq, cDer |-> p.cDer,
     Tapas |-> p.Tapas, CSup |-> p.CSup, Bases |-> p.Bases, CInf |-> p.CInf,
     paso_y |-> paso_y, paso_x |-> paso_x, clearance_cm |-> clearance_cm,
     objective |-> objective]

\* Faulty variant of SlotOf: the two slots are read crosswise.
SlotSwapped(cw, ch, objective) == IF objective = "width" THEN ch ELSE cw

\* The slot _render_from_cache reads: "width" has its own, every other
\* objective reads the height slot.
SlotOf(cw, ch, objective) == IF objective = "width" THEN cw ELSE ch

\* NestingEngine._render_from_cache: the cached pattern_data, or None.  The
\* key compared is built from the search arguments recorded in the cached
\* entry itself.
RenderFromCache(p, cw, ch, objective) ==
    Only({ IF cache.pattern_data = None THEN None
           ELSE IF ~CacheIsValid(cache,
                       GenerateCacheKey(p, cache.pattern_data.paso_y,
                                        cache.pattern_data.paso_x,
                                        cache.pattern_data.clearance_cm,
                                        cache.pattern_data.objective))
                THEN None
           ELSE cache.pattern_data
           : cache \in {SlotOf(cw, ch, objective)} })

\* The motif of a pattern_data or of a returned result.
Motif(d) ==
    [poly1 |-> d.poly1, poly2T |-> d.poly2T, poly3T |-> d.poly3T,
     dx2 |-> d.dx2, dy2 |-> d.dy2, dx3 |-> d.dx3, dy3 |-> d.dy3,
     rot1 |-> d.rot1, rot2 |-> d.rot2]

\* The pattern_data _store_nesting_result builds.
PatternData(best, paso_y, paso_x, clearance_cm, objective) ==
    [poly1 |-> best.poly1, poly2T |-> best.poly2T, poly3T |-> best.poly3T,
     dx2 |-> best.dx2, dy2 |-> best.dy2, dx3 |-> best.dx3, dy3 |-> best.dy3,
     rot1 |-> best.rot1, rot2 |-> best.rot2,
     paso_y |-> paso_y, paso_x |-> paso_x,
     clearance_cm |-> clearance_cm, objective |-> objective]

\* A recurrence whose general branches (columns from 3 on) forget the
\* column gap of the tile itself.
OffsetWithoutOwnGap(pd, h1, row, col, medianil_x, medianil_y) ==
    Only({
        IF col = 0 THEN <<0, row_offset_y>>
        ELSE IF col = 1
        THEN <<pd.dx2 + medianil_x, pd.dy2 + row_offset_y>>
        ELSE IF col = 2
        THEN <<pd.dx3 + 2 * medianil_x, pd.dy3 + row_offset_y>>
        ELSE IF col % 2 = 1
        THEN <<(pd.dx3 * ((col - 1) \div 2) + (col - 1) * medianil_x) + pd.dx2,
               pd.dy3 * ((col - 1) \div 2) + pd.dy2 + row_offset_y>>
        ELSE <<(pd.dx2 + pd.dx3 * ((col - 2) \div 2) + (col - 1) * medianil_x)
                 + (pd.dx3 - pd.dx2),
               (pd.dy2 + pd.dy3 * ((col - 2) \div 2))
                 + (pd.dy3 - pd.dy2) + row_offset_y>>
        : row_offset_y \in {row * (h1 + medianil_y)} })

\* The offset the column/row recurrence of calculate_global_bbox (and of
\* draw_tiling_pattern) gives the tile at (row, col); h1 is the height of
\* poly1.
TileOffset(pd, h1, row, col, medianil_x, medianil_y) ==
    Only({
        IF col = 0 THEN <<0, row_offset_y>>
        ELSE IF col = 1
        THEN <<pd.dx2 + medianil_x, pd.dy2 + row_offset_y>>
        ELSE IF col = 2
        THEN <<pd.dx3 + 2 * medianil_x, pd.dy3 + row_offset_y>>
        ELSE IF col % 2 = 1
        THEN <<(pd.dx3 * ((col - 1) \div 2) + (col - 1) * medianil_x)
                 + pd.dx2 + medianil_x,
               pd.dy3 * ((col - 1) \div 2) + pd.dy2 + row_offset_y>>
        ELSE <<(pd.dx2 + pd.dx3 * ((col - 2) \div 2) + (col - 1) * medianil_x)
                 + (pd.dx3 - pd.dx2) + medianil_x,
               (pd.dy2 + pd.dy3 * ((col - 2) \div 2))
                 + (pd.dy3 - pd.dy2) + row_offset_y>>
        : row_offset_y \in {row * (h1 + medianil_y)} })

\* The polygon of column col: 1 for poly1, 2 for poly2T, 3 for poly3T.
TilePoly(col) == IF col = 0 THEN 1 ELSE IF col % 2 = 1 THEN 2 ELSE 3

\* The aabb of the tile at (row, col); bbs holds the aabb of poly1, poly2T
\* and poly3T.
TileBox(pd, bbs, h1, row, col, medianil_x, medianil_y) ==
    Only({ <<bb[1] + o[1], bb[2] + o[2], bb[3] + o[1], bb[4] + o[2]>>
           : bb \in {bbs[TilePoly(col)]},
             o \in {TileOffset(pd, h1, row, col, medianil_x, medianil_y)} })

\* What the two loops of calculate_global_bbox place: for every (row, col)
\* the polygon taken (current_poly) and its offset.
GridPlacement(pd, tiles_x, tiles_y, medianil_x, medianil_y) ==
    Only({ [rc \in (0..(tiles_y - 1)) \X (0..(tiles_x - 1)) |->
               [current_poly |-> TilePoly(rc[2]),
                offset |-> TileOffset(pd, h1, rc[1], rc[2], medianil_x, medianil_y)]]
           : h1 \in {Height(pd.poly1)} })

\* A box that is the aabb of the last tile placed, not of all of them.
LastTileBbox(p, cw, ch, tiles_x, tiles_y, medianil_x, medianil_y, objective) ==
    Only({
        IF cache.pattern_data = None
        THEN aabb(rotate_and_align_top_left(build_tile_orthopoly_and_edges_cm(p), 90))
        ELSE TileBox(cache.pattern_data,
                     <<aabb(cache.pattern_data.poly1), aabb(cache.pattern_data.poly2T),
                       aabb(cache.pattern_data.poly3T)>>,
                     Height(cache.pattern_data.poly1), tiles_y - 1, tiles_x - 1,
                     medianil_x, medianil_y)
        : cache \in {IF objective = "width" THEN cw ELSE ch} })

\* NestingEngine.calculate_global_bbox: <<minx, miny, maxx, maxy>> of the
\* tiles_x x tiles_y grid built from the motif in the slot of the
\* objective; with an empty slot, the aabb of one tile rotated by 90.
calculate_global_bbox(p, cw, ch, tiles_x, tiles_y, medianil_x, medianil_y, objective) ==
    Only({
        IF cache.pattern_data = None
        THEN aabb(rotate_and_align_top_left(build_tile_orthopoly_and_edges_cm(p), 90))
        ELSE Only({
            Only({ <<SetMin({b[1] : b \in boxes}), SetMin({b[2] : b \in boxes}),
                     SetMax({b[3] : b \in boxes}), SetMax({b[4] : b \in boxes})>>
                   : boxes \in {{TileBox(cache.pattern_data, bbs, h1, row, col,
                                         medianil_x, medianil_y)
                                   : row \in 0..(tiles_y - 1),
                                     col \in 0..(tiles_x - 1)}} })
            : bbs \in {<<aabb(cache.pattern_data.poly1),
                         aabb(cache.pattern_data.poly2T),
                         aabb(cache.pattern_data.poly3T)>>},
              h1 \in {Height(cache.pattern_data.poly1)} })
        : cache \in {IF objective = "width" THEN cw ELSE ch} })

\* The two slots and the two last keys of a NestingEngine, as one value.
Engine ==
    [nesting_cache_width |-> nesting_cache_width,
     nesting_cache_height |-> nesting_cache_height,
     last_cache_key_width |-> last_cache_key_width,
     last_cache_key_height |-> last_cache_key_height]

SetEngine(e) ==
    /\ nesting_cache_width' = e.nesting_cache_width
    /\ nesting_cache_height' = e.nesting_cache_height
    /\ last_cache_key_width' = e.last_cache_key_width
    /\ last_cache_key_height' = e.last_cache_key_height

\* NestingEngine._store_nesting_result: the pattern_data and the key of the
\* current parameters go to the width slot for objective "width" and to
\* the height slot otherwise.
StoreNestingResult(e, p, best, paso_y, paso_x, clearance_cm, objective) ==
    Only({ IF objective = "width"
           THEN [e EXCEPT !.nesting_cache_width = CacheStore(pattern_data, cache_key),
                          !.last_cache_key_width = cache_key]
           ELSE [e EXCEPT !.nesting_cache_height = CacheStore(pattern_data, cache_key),
                          !.last_cache_key_height = cache_key]
           : pattern_data \in {PatternData(best, paso_y, paso_x, clearance_cm, objective)},
             cache_key \in {GenerateCacheKey(p, paso_y, paso_x, clearance_cm, objective)} })

\* Faulty variant of ReturnNone: a failed search empties both slots.
ClearOnFailure(e) ==
    [nesting_cache_width |-> EmptyCache, nesting_cache_height |-> EmptyCache,
     last_cache_key_width |-> None, last_cache_key_height |-> None]

\* calculate_optimal_nesting when no orientation produced a motif
\* (global_best is None): it returns before _store_nesting_result, the
\* engine is as it was.
ReturnNone(e) == e

\* NestingEngine.calculate_optimal_nesting(objective, paso_y, paso_x,
\* clearance_cm, force_recalculate) on engine e with parameters p: the
\* cache first, else the full calculation, stored when it found a motif.
\* Gives the engine afterwards, what was returned, whether it came from
\* the cache and the placement searches run.
calculate_optimal_nesting(e, p, objective, sp, force) ==
    Only({
        IF cached # None
        THEN [engine |-> e, hit |-> TRUE, searches |-> 0, result |-> cached]
        ELSE Only({
            IF calc.best = None
            THEN [engine |-> ReturnNone(e), hit |-> FALSE,
                  searches |-> calc.searches, result |-> None]
            ELSE [engine |-> StoreNestingResult(e, p, calc.best, sp[1], sp[2], sp[3],
                                                objective),
                  hit |-> FALSE, searches |-> calc.searches, result |-> calc.best]
            : calc \in {Calculation(p, sp[1], sp[2], sp[3], objective)} })
        : cached \in {IF force THEN None
                      ELSE RenderFromCache(p, e.nesting_cache_width,
                                           e.nesting_cache_height, objective)} })

(***************************************************************************)
(* TileTab: the production optimizer behind "optimizar layout".            *)
(***************************************************************************)
\* The tile count at which the four loops of _calculate_layout_bounds stop.
MaxTiles == 100

\* TileTab._apply_margins_to_dims: the side margins are added to the width,
\* gripper and counter-gripper to the height.
apply_margins_to_dims(s, medida_x, medida_y) ==
    <<medida_x + s.sangria_izquierda + s.sangria_derecha,
      medida_y + s.pinza + s.contra_pinza>>

\* TileTab._read_bed_limits returns (it raises ValueError otherwise).
BedLimitsValid(s) == ~(s.xmax <= s.xmin) /\ ~(s.ymax <= s.ymin)

\* Faulty variant of ensure_layout_within_limits: only the width is checked.
EnsureWidthOnly(s, medida_x, medida_y) ==
    /\ BedLimitsValid(s)
    /\ ~(medida_x < s.xmin \/ medida_x > s.xmax)

\* TileTab._ensure_layout_within_limits(medida_x, medida_y), the limits read
\* from the form: TRUE when it returns, FALSE when it raises ValueError.
ensure_layout_within_limits(s, medida_x, medida_y) ==
    /\ BedLimitsValid(s)
    /\ ~(medida_x < s.xmin \/ medida_x > s.xmax)
    /\ ~(medida_y < s.ymin \/ medida_y > s.ymax)

\* What the layout functions work on: the engine e with parameters p, the
\* form s, the objective, and the bed limits and medianil optimizar_layout
\* read when it started.
LayoutEnv(e, p, s, objective) ==
    [e |-> e, p |-> p, s |-> s, objective |-> objective,
     x_min_roland |-> s.xmin, x_max_roland |-> s.xmax,
     y_min_roland |-> s.ymin, y_max_roland |-> s.ymax,
     medianil_x |-> s.medianil_x, medianil_y |-> s.medianil_y]

\* <<ancho_total, alto_total>> of a tiles_x x tiles_y grid: the size of
\* calculate_global_bbox with the margins applied.
GridDims(env, tiles_x, tiles_y) ==
    Only({ apply_margins_to_dims(env.s, bbox[3] - bbox[1], bbox[4] - bbox[2])
           : bbox \in {calculate_global_bbox(env.p, env.e.nesting_cache_width,
                                             env.e.nesting_cache_height,
                                             tiles_x, tiles_y,
                                             env.medianil_x, env.medianil_y,
                                             env.objective)} })

\* Exit tests that leave the loops towards the minimal grid only when the
\* bed minimum is exceeded.
ExitWhenExceeded(env, loop, other, n) ==
    IF loop = "x_min" THEN GridDims(env, n, 1)[1] > env.x_min_roland
    ELSE IF loop = "y_min" THEN GridDims(env, other, n)[2] > env.y_min_roland
    ELSE IF loop = "x_max" THEN GridDims(env, n + 1, 1)[1] > env.x_max_roland
    ELSE GridDims(env, other, n + 1)[2] > env.y_max_roland

\* The exit tests of the four loops of _calculate_layout_bounds at tile
\* count n; other is the tile count of the other axis.
ExitTest(env, loop, other, n) ==
    IF loop = "x_min" THEN GridDims(env, n, 1)[1] >= env.x_min_roland
    ELSE IF loop = "y_min" THEN GridDims(env, other, n)[2] >= env.y_min_roland
    ELSE IF loop = "x_max" THEN GridDims(env, n + 1, 1)[1] > env.x_max_roland
    ELSE GridDims(env, other, n + 1)[2] > env.y_max_roland

\* A loop that counts up from lo and leaves at the first count whose exit
\* test holds: that count, or 0 when the test fails up to hi.  The counts
\* are visited in increasing order, by halves.
RECURSIVE FirstExit(_, _, _, _, _)
FirstExit(env, loop, other, lo, hi) ==
    IF lo > hi THEN 0
    ELSE IF lo = hi THEN (IF ExitTest(env, loop, other, lo) THEN lo ELSE 0)
    ELSE Only({ Only({ IF left # 0 THEN left
                       ELSE FirstExit(env, loop, other, mid + 1, hi)
                       : left \in {FirstExit(env, loop, other, lo, mid)} })
                : mid \in {(lo + hi) \div 2} })

\* The loops towards the minimal grid return None past MaxTiles (0 here).
TilesMinLoop(env, loop, other) == FirstExit(env, loop, other, 1, MaxTiles)

\* The loops towards the maximal grid start at the minimal count and break
\* past MaxTiles, leaving MaxTiles + 1.
TilesMaxLoop(env, loop, other, start) ==
    Only({ IF n = 0 THEN MaxTiles + 1 ELSE n
           : n \in {FirstExit(env, loop, other, start, MaxTiles)} })

\* TileTab._calculate_layout_bounds: the four tile counts, or None.
calculate_layout_bounds(env) ==
    Only({
        IF tiles_x_min = 0 THEN None
        ELSE Only({
            IF tiles_y_min = 0 THEN None
            ELSE Only({ [tiles_x_min |-> tiles_x_min, tiles_y_min |-> tiles_y_min,
                         tiles_x_max |-> tiles_x_max,
                         tiles_y_max |-> TilesMaxLoop(env, "y_max", tiles_x_max,
                                                      tiles_y_min)]
                        : tiles_x_max \in {TilesMaxLoop(env, "x_max", 1, tiles_x_min)} })
            : tiles_y_min \in {TilesMinLoop(env, "y_min", tiles_x_min)} })
        : tiles_x_min \in {TilesMinLoop(env, "x_min", 1)} })

\* math.ceil(a / b) for a >= 0, b > 0.
Ceil(a, b) == (a + b - 1) \div b

\* TileTab._calculate_production_metrics.
calculate_production_metrics(b, volumen, tiros_minimos) ==
    Only({ [tiles_x_min |-> b.tiles_x_min, tiles_y_min |-> b.tiles_y_min,
            tiles_x_max |-> b.tiles_x_max, tiles_y_max |-> b.tiles_y_max,
            planos_min |-> planos_min, planos_max |-> planos_max,
            tiros_con_min |-> IF planos_min > 0
                              THEN Max2(1, Ceil(volumen, planos_min)) ELSE 0,
            tiros_con_max |-> IF planos_max > 0
                              THEN Max2(1, Ceil(volumen, planos_max)) ELSE 0,
            volumen |-> volumen, tiros_minimos |-> tiros_minimos]
           : planos_min \in {b.tiles_x_min * b.tiles_y_min},
             planos_max \in {b.tiles_x_max * b.tiles_y_max} })

\* The shot count of TileTab._create_layout_result (tiros_necesarios).
tiros_necesarios(volumen, total_tiles) == Max2(1, Ceil(volumen, total_tiles))

\* A shot count that is not raised to the minimum shots.
ComputeTirosNoMinimum(planilla, volumen, tiros_minimos) ==
    IF planilla <= 0 THEN 0
    ELSE IF Max2(0, volumen) > 0 THEN Ceil(Max2(0, volumen), planilla) ELSE 0

\* TileTab._compute_tiros, the shot count shown after a nesting run;
\* volumen and tiros_minimos are the values of the two spin boxes.
compute_tiros(planilla, volumen, tiros_minimos) ==
    IF planilla <= 0 THEN 0
    ELSE Max2(IF Max2(0, volumen) > 0 THEN Ceil(Max2(0, volumen), planilla) ELSE 0,
              tiros_minimos)

\* ProductionParameters.calculate_production_metrics, its tiros_necesarios;
\* pp has volumen, tiros_minimos and max_tiros (None when not given).
production_tiros_necesarios(pp, tiles_per_shot) ==
    IF tiles_per_shot <= 0 THEN 0
    ELSE Only({ Only({ IF pp.max_tiros # None THEN Min2(t2, pp.max_tiros) ELSE t2
                       : t2 \in {IF pp.tiros_minimos > 0
                                 THEN Max2(t1, pp.tiros_minimos) ELSE t1} })
                : t1 \in {Max2(1, (pp.volumen + tiles_per_shot - 1)
                                     \div tiles_per_shot)} })

\* Faulty variant of StrategySelection: the comparisons are strict.
StrictSelection(tiros_con_min, tiros_con_max, tiros_minimos) ==
    IF tiros_con_min < tiros_minimos THEN "minima"
    ELSE IF tiros_con_max > tiros_minimos THEN "maxima"
    ELSE "intermedia"

\* The strategy selection of _find_optimal_layout.
StrategySelection(tiros_con_min, tiros_con_max, tiros_minimos) ==
    IF tiros_con_min <= tiros_minimos THEN "minima"
    ELSE IF tiros_con_max >= tiros_minimos THEN "maxima"
    ELSE "intermedia"

\* Faulty variant of BestFactor: the first pair found is taken.
FirstFactor(factores_posibles) ==
    CHOOSE f \in factores_posibles :
        \A g \in factores_posibles :
            f.tx < g.tx \/ (f.tx = g.tx /\ f.ty <= g.ty)

\* min(factores_posibles, key=area): the least area, the first such pair in
\* the order the loops found them (tx ascending, then ty).
BestFactor(factores_posibles) ==
    CHOOSE f \in factores_posibles :
        \A g \in factores_posibles :
            \/ f.area < g.area
            \/ /\ f.area = g.area
               /\ (f.tx < g.tx \/ (f.tx = g.tx /\ f.ty <= g.ty))

\* TileTab._find_intermediate_layout: the pairs of the bounds whose product
\* is total_tiles_necesario and whose size with margins passes
\* _ensure_layout_within_limits; the best of them, else the maximal grid.
find_intermediate_layout(env, b, total_tiles_necesario) ==
    Only({ IF factores_posibles # {}
           THEN Only({ [tiles_x |-> f.tx, tiles_y |-> f.ty]
                       : f \in {BestFactor(factores_posibles)} })
           ELSE [tiles_x |-> b.tiles_x_max, tiles_y |-> b.tiles_y_max]
           : factores_posibles \in {
               { [tx |-> g[1], ty |-> g[2], area |-> g[3][1] * g[3][2]]
                 : g \in { h \in { <<t[1], t[2], GridDims(env, t[1], t[2])>>
                                   : t \in { u \in (b.tiles_x_min..b.tiles_x_max)
                                                   \X (b.tiles_y_min..b.tiles_y_max)
                                               : u[1] * u[2] = total_tiles_necesario } }
                             : ensure_layout_within_limits(env.s, h[3][1], h[3][2]) } } } })

\* TileTab._create_layout_result: the LayoutResult of the grid, or None when
\* _ensure_layout_within_limits raises ValueError (the caller,
\* _calculate_layout_for_objective, turns every exception into None).
create_layout_result(env, tiles_x, tiles_y, tipo_planilla, volumen) ==
    Only({ IF ~ensure_layout_within_limits(env.s, d[1], d[2]) THEN None
           ELSE [tiles_x |-> tiles_x, tiles_y |-> tiles_y,
                 total_tiles |-> tiles_x * tiles_y,
                 ancho |-> d[1], alto |-> d[2], area |-> d[1] * d[2],
                 objective |-> env.objective, planilla_tipo |-> tipo_planilla,
                 tiros_necesarios |-> Max2(1, Ceil(volumen, tiles_x * tiles_y))]
           : d \in {GridDims(env, tiles_x, tiles_y)} })

\* TileTab._find_optimal_layout on the metrics m: the class chosen, the grid
\* chosen (layout_optimo), its size with margins and the LayoutResult.
find_optimal_layout(env, m) ==
    Only({ Only({ [tipo_planilla |-> tipo, layout_optimo |-> grid,
                   dims |-> IF grid = None THEN None
                            ELSE Only({ [ancho |-> d[1], alto |-> d[2]]
                                        : d \in {GridDims(env, grid.tiles_x,
                                                          grid.tiles_y)} }),
                   result |-> IF grid = None THEN None
                              ELSE create_layout_result(env, grid.tiles_x, grid.tiles_y,
                                                        tipo, m.volumen)]
                  : grid \in {IF tipo = "minima"
                              THEN [tiles_x |-> m.tiles_x_min, tiles_y |-> m.tiles_y_min]
                              ELSE IF tipo = "maxima"
                              THEN [tiles_x |-> m.tiles_x_max, tiles_y |-> m.tiles_y_max]
                              ELSE IF m.tiros_minimos = 0 THEN None
                              ELSE find_intermediate_layout(
                                       env, m, Ceil(m.volumen, m.tiros_minimos))} })
           : tipo \in {StrategySelection(m.tiros_con_min, m.tiros_con_max,
                                         m.tiros_minimos)} })

\* TileTab._calculate_layout_for_objective: bounds, metrics, the choice of
\* _find_optimal_layout and the LayoutResult (None when there are no bounds
\* or an exception was caught), with the engine they were computed on.
calculate_layout_for_objective(env, volumen, tiros_minimos) ==
    Only({ IF b = None
           THEN [objective |-> env.objective, engine |-> env.e,
                 bounds |-> None, metrics |-> None,
                 tipo_planilla |-> "", layout_optimo |-> None, dims |-> None,
                 result |-> None]
           ELSE Only({ Only({ [objective |-> env.objective, engine |-> env.e,
                               bounds |-> b, metrics |-> m,
                               tipo_planilla |-> f.tipo_planilla,
                               layout_optimo |-> f.layout_optimo, dims |-> f.dims,
                               result |-> f.result]
                              : f \in {find_optimal_layout(env, m)} })
                       : m \in {calculate_production_metrics(b, volumen, tiros_minimos)} })
           : b \in {calculate_layout_bounds(env)} })

\* A comparison that looks at the area before the number of tiles.
AreaFirst(lw, lh) ==
    IF lw = None /\ lh = None THEN None
    ELSE IF lw = None THEN lh
    ELSE IF lh = None THEN lw
    ELSE IF lw.area < lh.area THEN lw
    ELSE IF lh.area < lw.area THEN lh
    ELSE IF lw.total_tiles > lh.total_tiles THEN lw ELSE lh

\* TileTab._compare_layouts: more tiles first, then the smaller area.
compare_layouts(lw, lh) ==
    IF lw = None /\ lh = None THEN None
    ELSE IF lw = None THEN lh
    ELSE IF lh = None THEN lw
    ELSE IF lw.total_tiles > lh.total_tiles THEN lw
    ELSE IF lh.total_tiles > lw.total_tiles THEN lh
    ELSE IF lw.area < lh.area THEN lw ELSE lh

\* TileTab._build_cache_signature.
build_cache_signature(p, s) ==
    [params |-> p, medianil_x |-> s.medianil_x, medianil_y |-> s.medianil_y,
     paso_y |-> s.paso_y, paso_x |-> s.paso_x, clearance |-> s.clearance]

\* TileTab._generate_cache_for_objective: nothing when the slot holds a motif
\* and the signature is current, else a forced calculate_optimal_nesting,
\* its signature recorded when it returned a motif.
generate_cache_for_objective(e, sigs, p, s, objective) ==
    Only({ IF cache_obj.pattern_data # None /\ sigs[objective] = signature
           THEN [engine |-> e, sigs |-> sigs]
           ELSE Only({ [engine |-> out.engine,
                        sigs |-> IF out.result # None
                                 THEN [sigs EXCEPT ![objective] = signature]
                                 ELSE sigs]
                       : out \in {calculate_optimal_nesting(
                                      e, p, objective,
                                      <<s.paso_y, s.paso_x, s.clearance>>, TRUE)} })
           : signature \in {build_cache_signature(p, s)},
             cache_obj \in {IF objective = "width" THEN e.nesting_cache_width
                            ELSE e.nesting_cache_height} })

\* The range of the tiles_x and tiles_y spin boxes.
TilesSpinMax == 100

\* QDoubleSpinBox.setValue on sb_tiles_x, sb_tiles_y: the value is clamped
\* to the range of the box.
SetTilesSpin(v) == Max2(1, Min2(TilesSpinMax, v))

(***************************************************************************)
(* Inputs of the optimizer.                                                *)
(***************************************************************************)
\* <<xmin, xmax, ymin, ymax>> of the bed; the last one is refused by
\* _read_bed_limits.
BedLimits == {<<3, 8, 8, 16>>, <<1, 6, 4, 16>>, <<2, 9, 4, 20>>, <<5, 5, 4, 16>>}

\* <<sangria_izquierda, sangria_derecha, pinza, contra_pinza>>.
Margins == {<<0, 0, 0, 0>>, <<1, 0, 1, 0>>}

\* <<medianil_x, medianil_y>>.
MedianilPairs == {<<0, 0>>, <<1, 0>>}

Volumes == {0, 96, 100}
MinimumShots == {0, 1, 5, 9, 10, 20, 30}

SpinBoxes(bed, mar, med, sp, volumen, tiros_minimos) ==
    [xmin |-> bed[1], xmax |-> bed[2], ymin |-> bed[3], ymax |-> bed[4],
     sangria_izquierda |-> mar[1], sangria_derecha |-> mar[2],
     pinza |-> mar[3], contra_pinza |-> mar[4],
     medianil_x |-> med[1], medianil_y |-> med[2],
     paso_y |-> sp[1], paso_x |-> sp[2], clearance |-> sp[3],
     tiles_x |-> 1, tiles_y |-> 1,
     volumen |-> volumen, tiros_minimos |-> tiros_minimos]

SpinDomain ==
    {SpinBoxes(bed, mar, med, sp, volumen, tiros_minimos) :
        bed \in BedLimits, mar \in Margins, med \in MedianilPairs,
        sp \in SearchParams, volumen \in Volumes, tiros_minimos \in MinimumShots}

\* The form as the engine specification leaves it.
DefaultSpin == SpinBoxes(<<3, 8, 8, 16>>, <<0, 0, 0, 0>>, <<0, 0>>, <<1, 1, 0>>, 0, 0)

(***************************************************************************)
(* Initial states and actions.                                             *)
(***************************************************************************)
EngineInit ==
    /\ params = InitialParams
    /\ nesting_cache_width = EmptyCache
    /\ nesting_cache_height = EmptyCache
    /\ last_cache_key_width = None
    /\ last_cache_key_height = None
    /\ last = None
    /\ ncalls = 0
    /\ edited = FALSE

TabInit ==
    /\ cache_signatures = [objective \in {"width", "height"} |-> None]
    /\ layout_width = None
    /\ layout_height = None
    /\ layout_optimo = None

\* No OrthoPoly object is followed.
NoObjects == [name |-> "", n |-> 0]

\* TileTab.__init__: no worker, an empty context.
WorkerInit ==
    /\ workers = <<>>
    /\ active_worker = None
    /\ worker_context = None
    /\ mainq = <<>>
    /\ wlog = [thread |-> "", handler |-> "", runs |-> 0, dropped |-> 0,
               completion |-> None]

\* Nothing is running.
ProcInit == lb = None /\ search = None /\ WorkerInit

UnitInit ==
    /\ call = None
    /\ heap = <<>> /\ polyop = NoObjects
    /\ ncache = None /\ cop = NoObjects
    /\ ProcInit

Init == EngineInit /\ TabInit /\ UnitInit /\ sb = DefaultSpin

InitLayout == EngineInit /\ TabInit /\ UnitInit /\ sb \in SpinDomain

\* What a call leaves in `last`: its arguments, whether it was served from
\* the cache, the placement searches it ran, what it returned, and the
\* slots and parameters it found.
CallRecord(objective, sp, force, hit, searches, result) ==
    [objective |-> objective, paso_y |-> sp[1], paso_x |-> sp[2],
     clearance_cm |-> sp[3], force_recalculate |-> force,
     hit |-> hit, searches |-> searches, result |-> result,
     params_before |-> params,
     width_before |-> nesting_cache_width,
     height_before |-> nesting_cache_height]

\* A call of NestingEngine.calculate_optimal_nesting.
CalculateOptimalNesting(objective, sp, force) ==
    /\ ncalls < MaxCalls
    /\ ncalls' = ncalls + 1
    /\ \E out \in {calculate_optimal_nesting(Engine, params, objective, sp, force)} :
        /\ SetEngine(out.engine)
        /\ last' = CallRecord(objective, sp, force, out.hit, out.searches,
                              IF out.result = None THEN None ELSE Motif(out.result))
    /\ UNCHANGED <<params, edited, tabVars, unitVars>>

\* PlanoTab.sync_params after a spin box of the parameter form changed: the
\* shared parameter object takes the new value.
SyncParams(f, i, v) ==
    /\ ~edited
    /\ FieldValue(params, f, i) # v
    /\ params' = SetField(params, f, i, v)
    /\ edited' = TRUE
    /\ UNCHANGED <<nesting_cache_width, nesting_cache_height,
                   last_cache_key_width, last_cache_key_height, last, ncalls,
                   tabVars, unitVars>>

\* TileTab._apply_optimal_layout: the tile counts go to the form and the
\* motif of the chosen objective is fetched for drawing.
ApplyOptimalLayout(e, opt) ==
    /\ sb' = [sb EXCEPT !.tiles_x = SetTilesSpin(opt.tiles_x),
                        !.tiles_y = SetTilesSpin(opt.tiles_y)]
    /\ \E out \in {calculate_optimal_nesting(
                       e, params, opt.objective,
                       <<sb.paso_y, sb.paso_x, sb.clearance>>, FALSE)} :
          SetEngine(out.engine)

\* TileTab.optimizar_layout.  With volume 0, or bed limits _read_bed_limits
\* refuses, nothing is computed.
OptimizarLayout ==
    /\ UNCHANGED <<params, last, ncalls, edited, unitVars>>
    /\ IF sb.volumen = 0 \/ ~BedLimitsValid(sb)
       THEN UNCHANGED <<nesting_cache_width, nesting_cache_height,
                        last_cache_key_width, last_cache_key_height, tabVars>>
       ELSE \E gw \in {generate_cache_for_objective(Engine, cache_signatures,
                                                    params, sb, "width")} :
            \E gh \in {generate_cache_for_objective(gw.engine, gw.sigs,
                                                    params, sb, "height")} :
            \E lw \in {calculate_layout_for_objective(
                           LayoutEnv(gh.engine, params, sb, "width"),
                           sb.volumen, sb.tiros_minimos)},
               lh \in {calculate_layout_for_objective(
                           LayoutEnv(gh.engine, params, sb, "height"),
                           sb.volumen, sb.tiros_minimos)} :
            \E opt \in {compare_layouts(lw.result, lh.result)} :
                /\ cache_signatures' = gh.sigs
                /\ layout_width' = lw
                /\ layout_height' = lh
                /\ layout_optimo' = opt
                /\ IF opt = None
                   THEN SetEngine(gh.engine) /\ UNCHANGED sb
                   ELSE ApplyOptimalLayout(gh.engine, opt)

\* TileTab.clear_nesting_cache.
ClearNestingCache ==
    /\ nesting_cache_width' = EmptyCache
    /\ nesting_cache_height' = EmptyCache
    /\ cache_signatures' = [objective \in {"width", "height"} |-> None]
    /\ UNCHANGED <<params, last_cache_key_width, last_cache_key_height,
                   last, ncalls, edited, sb, layout_width, layout_height,
                   layout_optimo, unitVars>>

Next ==
    \/ \E objective \in Objectives, sp \in SearchParams, force \in BOOLEAN :
          CalculateOptimalNesting(objective, sp, force)
    \/ \E fs \in FieldSlots : \E v \in FieldValues(fs[1]) :
          SyncParams(fs[1], fs[2], v)

Spec == Init /\ [][Next]_vars

NextLayout == OptimizarLayout \/ ClearNestingCache

SpecLayout == InitLayout /\ [][NextLayout]_vars

(***************************************************************************)
(* OrthoPoly objects.  heap[id] is the state of object id; an object that  *)
(* another holder references keeps its id.  polyop records the last        *)
(* operation: its name, the object it was applied to, that object's state  *)
(* before, and what was returned (an object, or None).                     *)
(***************************************************************************)
\* Orthogonal polygons: the 10 x 5 rectangle, an L away from the origin, a
\* square with one hole and a rectangle with two.
OrthoPolys ==
    {[outer |-> <<<<0, 0>>, <<10, 0>>, <<10, 5>>, <<0, 5>>>>, holes |-> <<>>],
     [outer |-> <<<<2, -1>>, <<6, -1>>, <<6, 1>>, <<4, 1>>, <<4, 6>>, <<2, 6>>>>,
      holes |-> <<>>],
     [outer |-> <<<<0, 0>>, <<6, 0>>, <<6, 6>>, <<0, 6>>>>,
      holes |-> << <<<<1, 1>>, <<1, 3>>, <<4, 3>>, <<4, 1>>>> >>],
     [outer |-> <<<<-3, 0>>, <<5, 0>>, <<5, 4>>, <<-3, 4>>>>,
      holes |-> << <<<<-2, 1>>, <<-2, 3>>, <<0, 3>>, <<0, 1>>>>,
                   <<<<2, 1>>, <<2, 2>>, <<4, 2>>, <<4, 1>>>> >>]}

MaxPolyOps == 3
Shifts == {<<5, 3>>, <<-2, 0>>}
HeldPolys == {p \in OrthoPolys : Len(p.holes) <= 1}

InitPolys ==
    /\ EngineInit /\ TabInit /\ sb = DefaultSpin /\ call = None
    /\ ncache = None /\ cop = NoObjects /\ ProcInit
    /\ heap \in {<<p>> : p \in HeldPolys}
    /\ polyop = [name |-> "OrthoPoly", n |-> 0, target |-> 1,
                 before |-> heap[1], rot |-> 0, dx |-> 0, dy |-> 0,
                 returned |-> [id |-> 1]]

PolyOp(name, id, arg, returned) ==
    [name |-> name, n |-> polyop.n + 1, target |-> id, before |-> heap[id],
     rot |-> arg[1], dx |-> arg[2], dy |-> arg[3], returned |-> returned]

\* poly.translate(dx, dy) on object id.
Translate(id, dx, dy) ==
    /\ polyop.n < MaxPolyOps
    /\ heap' = [heap EXCEPT ![id] = OrthoPoly_translate(heap[id], dx, dy)]
    /\ polyop' = PolyOp("translate", id, <<0, dx, dy>>, None)
    /\ UNCHANGED <<engineVars, tabVars, call, cacheVars, procVars>>

\* poly.rotated_copy(rot) on object id.
RotatedCopyOf(id, rot) ==
    /\ polyop.n < MaxPolyOps
    /\ heap' = Append(heap, OrthoPoly_rotated_copy(heap[id], rot))
    /\ polyop' = PolyOp("rotated_copy", id, <<rot, 0, 0>>, [id |-> Len(heap) + 1])
    /\ UNCHANGED <<engineVars, tabVars, call, cacheVars, procVars>>

\* rotate_and_align_top_left(poly, rects, rot): the rotated copy is moved
\* to the origin and returned.
RotateAndAlignTopLeft(id, rot) ==
    /\ polyop.n < MaxPolyOps
    /\ \E poly_r \in {OrthoPoly_rotated_copy(heap[id], rot)} :
       \E bb \in {OrthoPoly_aabb(poly_r)} :
          heap' = Append(heap, OrthoPoly_translate(poly_r, -bb[1], -bb[2]))
    /\ polyop' = PolyOp("rotate_and_align_top_left", id, <<rot, 0, 0>>, [id |-> Len(heap) + 1])
    /\ UNCHANGED <<engineVars, tabVars, call, cacheVars, procVars>>

\* calculate_optimal_nesting placing the second tile: poly2 is a copy of
\* poly2T, translated to (best_x, best_y).
PlaceSecondTile(id, best_x, best_y) ==
    /\ polyop.n < MaxPolyOps
    /\ heap' = Append(heap, OrthoPoly_translate(OrthoPoly_copy(heap[id]),
                                                best_x, best_y))
    /\ polyop' = PolyOp("calculate_optimal_nesting", id, <<0, best_x, best_y>>, None)
    /\ UNCHANGED <<engineVars, tabVars, call, cacheVars, procVars>>

\* TileScene.draw_tile(poly, rects, offset_x, offset_y): poly_draw is a
\* copy of poly, translated when an offset is given.
DrawTile(id, offset_x, offset_y) ==
    /\ polyop.n < MaxPolyOps
    /\ heap' = Append(heap,
                      IF offset_x # 0 \/ offset_y # 0
                      THEN OrthoPoly_translate(OrthoPoly_copy(heap[id]),
                                               offset_x, offset_y)
                      ELSE OrthoPoly_copy(heap[id]))
    /\ polyop' = PolyOp("draw_tile", id, <<0, offset_x, offset_y>>, None)
    /\ UNCHANGED <<engineVars, tabVars, call, cacheVars, procVars>>

NextPolys ==
    \E id \in DOMAIN heap :
        \/ \E d \in Shifts : Translate(id, d[1], d[2])
        \/ \E rot \in {90, 180} : RotatedCopyOf(id, rot)
        \/ \E rot \in {90, 270} : RotateAndAlignTopLeft(id, rot)
        \/ \E d \in Shifts : PlaceSecondTile(id, d[1], d[2])
        \/ \E d \in Shifts \cup {<<0, 0>>} : DrawTile(id, d[1], d[2])

SpecPolys == InitPolys /\ [][NextPolys]_vars

(***************************************************************************)
(* A NestingCache object: the slot (pattern_data, cache_key), the bounded  *)
(* key-value store cache, kept as a sequence of entries from the least to  *)
(* the most recently used, and the counters.  cop records the last         *)
(* operation, what it returned, the last store or clear (slot), and the    *)
(* keys in the order they were used (uses).                                *)
(***************************************************************************)
MaxCacheSize == 2
MaxCacheOps == 4
\* Keys and values are records, as the keys and motifs of the engine are.
CacheKeys == {[id |-> "key1"], [id |-> "key2"], [id |-> "key3"]}
CacheData == {[key |-> "value"], [key |-> "other"]}

\* NestingCache(max_size): an empty slot, an empty store, counters at 0.
NestingCache(max_size) ==
    [max_size |-> max_size, cache |-> <<>>, pattern_data |-> None,
     cache_key |-> None, hit_count |-> 0, miss_count |-> 0]

\* The keys of the key-value store.
StoredKeys(c) == {c.cache[i].key : i \in DOMAIN c.cache}

\* The entries of the store without the one of key.
EntriesWithout(entries, key) == SelectSeq(entries, LAMBDA e : e.key # key)

\* The store after an entry was added: the least recently used entries
\* beyond max_size are dropped.
RECURSIVE Evict(_, _)
Evict(entries, max_size) ==
    IF Len(entries) > max_size THEN Evict(Tail(entries), max_size)
    ELSE entries

\* store(value, key): the slot is replaced, and the entry becomes the most
\* recently used one of the store.
NestingCache_store(c, value, key) ==
    [c EXCEPT !.pattern_data = value, !.cache_key = key,
              !.cache = Evict(Append(EntriesWithout(c.cache, key),
                                     [key |-> key, value |-> value]),
                              c.max_size)]

\* A get that finds the entry and leaves it where it is in the order.
GetWithoutUse(c, key) ==
    IF key \in StoredKeys(c)
    THEN [cache |-> [c EXCEPT !.hit_count = c.hit_count + 1],
          returned |-> (CHOOSE e \in {c.cache[i] : i \in DOMAIN c.cache} :
                            e.key = key).value]
    ELSE [cache |-> [c EXCEPT !.miss_count = c.miss_count + 1],
          returned |-> None]

\* get(key): on success the value is returned, hit_count goes up and the
\* entry becomes the most recently used; otherwise miss_count goes up and
\* None is returned.
NestingCache_get(c, key) ==
    IF key \in StoredKeys(c)
    THEN LET e == CHOOSE e \in {c.cache[i] : i \in DOMAIN c.cache} : e.key = key
         IN [cache |-> [c EXCEPT !.hit_count = c.hit_count + 1,
                                 !.cache = Append(EntriesWithout(c.cache, key), e)],
             returned |-> e.value]
    ELSE [cache |-> [c EXCEPT !.miss_count = c.miss_count + 1],
          returned |-> None]

\* A clear that empties the data and leaves the key of the slot.
ClearKeepsKey(c, reset) ==
    [c EXCEPT !.pattern_data = None, !.cache = <<>>]

\* clear(): the slot and the store are emptied; reset tells whether the
\* counters go back to 0.
NestingCache_clear(c, reset) ==
    [c EXCEPT !.pattern_data = None, !.cache_key = None, !.cache = <<>>,
              !.hit_count = IF reset THEN 0 ELSE c.hit_count,
              !.miss_count = IF reset THEN 0 ELSE c.miss_count]

InitCache ==
    /\ EngineInit /\ TabInit /\ sb = DefaultSpin /\ call = None
    /\ heap = <<>> /\ polyop = NoObjects /\ ProcInit
    /\ ncache \in {NestingCache(n) : n \in 1..MaxCacheSize}
    /\ cop = [name |-> "NestingCache", n |-> 0, key |-> None, returned |-> None,
              slot |-> [name |-> "NestingCache", key |-> None], uses |-> <<>>]

\* cache.store(value, key)
Store(value, key) ==
    /\ cop.n < MaxCacheOps
    /\ ncache' = NestingCache_store(ncache, value, key)
    /\ cop' = [name |-> "store", n |-> cop.n + 1, key |-> key, returned |-> None,
               slot |-> [name |-> "store", key |-> key],
               uses |-> Append(cop.uses, key)]
    /\ UNCHANGED <<engineVars, tabVars, call, polyVars, procVars>>

\* cache.get(key)
Get(key) ==
    /\ cop.n < MaxCacheOps
    /\ \E r \in {NestingCache_get(ncache, key)} :
          /\ ncache' = r.cache
          /\ cop' = [name |-> "get", n |-> cop.n + 1, key |-> key,
                     returned |-> r.returned, slot |-> cop.slot,
                     uses |-> IF r.returned # None THEN Append(cop.uses, key)
                              ELSE cop.uses]
    /\ UNCHANGED <<engineVars, tabVars, call, polyVars, procVars>>

\* cache.clear()
Clear ==
    /\ cop.n < MaxCacheOps
    /\ \E reset \in BOOLEAN : ncache' = NestingCache_clear(ncache, reset)
    /\ cop' = [name |-> "clear", n |-> cop.n + 1, key |-> None, returned |-> None,
               slot |-> [name |-> "clear", key |-> None], uses |-> cop.uses]
    /\ UNCHANGED <<engineVars, tabVars, call, polyVars, procVars>>

NextCache ==
    \/ \E value \in CacheData, key \in CacheKeys : Store(value, key)
    \/ \E key \in CacheKeys : Get(key)
    \/ Clear

SpecCache == InitCache /\ [][NextCache]_vars

(***************************************************************************)
(* _calculate_layout_bounds, one pass of a loop at a time.  lb holds the   *)
(* bounding-box function f the engine answers with, the bed limits, the    *)
(* loop the run is in (pc), the four tile counts, the bounding-box         *)
(* evaluations made by each loop, and what was returned.                   *)
(***************************************************************************)
\* Bounding-box functions: the width and the height of the box of a
\* tiles_x x tiles_y grid.  With dw = 0 and dh = 0 the box is the one of a
\* single tile whatever the grid, as when no motif is cached.
BboxFunctions == [w0 : {2}, dw : {0, 1}, h0 : {3}, dh : {0, 2}]

BboxDims(f, tiles_x, tiles_y) ==
    <<f.w0 + f.dw * (tiles_x - 1), f.h0 + f.dh * (tiles_y - 1)>>

\* Bed limits <<x_min, x_max, y_min, y_max>> with max > min.
LoopBeds ==
    {<<1, 60>>, <<1, 400>>, <<50, 60>>, <<50, 400>>, <<150, 400>>}
        \X {<<1, 8>>, <<1, 400>>, <<250, 400>>}

\* A cap that is looked at five counts late.
CapLate(n) == n > MaxTiles + 5

\* if tiles > 100
PastCap(n) == n > MaxTiles

InitBounds ==
    /\ EngineInit /\ TabInit /\ sb = DefaultSpin /\ call = None
    /\ heap = <<>> /\ polyop = NoObjects
    /\ ncache = None /\ cop = NoObjects
    /\ search = None /\ WorkerInit
    /\ lb \in {[pc |-> "x_min", f |-> f,
                 x_min_roland |-> bed[1][1], x_max_roland |-> bed[1][2],
                 y_min_roland |-> bed[2][1], y_max_roland |-> bed[2][2],
                 tiles_x_min |-> 1, tiles_y_min |-> 0,
                 tiles_x_max |-> 0, tiles_y_max |-> 0,
                 evals |-> [loop \in {"x_min", "y_min", "x_max", "y_max"} |-> 0],
                 returned |-> None]
                : f \in BboxFunctions, bed \in LoopBeds}

\* One more bounding-box evaluation by the loop the run is in.
Evaluated == [lb.evals EXCEPT ![lb.pc] = lb.evals[lb.pc] + 1]

\* A pass of the loop that finds the minimal number of columns.
XMinPass ==
    /\ lb # None /\ lb.pc = "x_min"
    /\ lb' = IF BboxDims(lb.f, lb.tiles_x_min, 1)[1] >= lb.x_min_roland
             THEN [lb EXCEPT !.evals = Evaluated, !.pc = "y_min", !.tiles_y_min = 1]
             ELSE IF PastCap(lb.tiles_x_min + 1)
             THEN [lb EXCEPT !.evals = Evaluated, !.pc = "returned",
                             !.tiles_x_min = lb.tiles_x_min + 1]
             ELSE [lb EXCEPT !.evals = Evaluated, !.tiles_x_min = lb.tiles_x_min + 1]
    /\ UNCHANGED <<engineVars, tabVars, call, polyVars, cacheVars, search, workerVars>>

\* A pass of the loop that finds the minimal number of rows.
YMinPass ==
    /\ lb # None /\ lb.pc = "y_min"
    /\ lb' = IF BboxDims(lb.f, lb.tiles_x_min, lb.tiles_y_min)[2] >= lb.y_min_roland
             THEN [lb EXCEPT !.evals = Evaluated, !.pc = "x_max",
                             !.tiles_x_max = lb.tiles_x_min]
             ELSE IF PastCap(lb.tiles_y_min + 1)
             THEN [lb EXCEPT !.evals = Evaluated, !.pc = "returned",
                             !.tiles_y_min = lb.tiles_y_min + 1]
             ELSE [lb EXCEPT !.evals = Evaluated, !.tiles_y_min = lb.tiles_y_min + 1]
    /\ UNCHANGED <<engineVars, tabVars, call, polyVars, cacheVars, search, workerVars>>

\* A pass of the loop that finds the maximal number of columns.
XMaxPass ==
    /\ lb # None /\ lb.pc = "x_max"
    /\ lb' = IF BboxDims(lb.f, lb.tiles_x_max + 1, 1)[1] > lb.x_max_roland
             THEN [lb EXCEPT !.evals = Evaluated, !.pc = "y_max",
                             !.tiles_y_max = lb.tiles_y_min]
             ELSE IF PastCap(lb.tiles_x_max + 1)
             THEN [lb EXCEPT !.evals = Evaluated, !.pc = "y_max",
                             !.tiles_x_max = lb.tiles_x_max + 1,
                             !.tiles_y_max = lb.tiles_y_min]
             ELSE [lb EXCEPT !.evals = Evaluated, !.tiles_x_max = lb.tiles_x_max + 1]
    /\ UNCHANGED <<engineVars, tabVars, call, polyVars, cacheVars, search, workerVars>>

\* A pass of the loop that finds the maximal number of rows; the tuple is
\* returned when the loop is left.
YMaxPass ==
    /\ lb # None /\ lb.pc = "y_max"
    /\ \E left \in {IF BboxDims(lb.f, lb.tiles_x_max, lb.tiles_y_max + 1)[2]
                        > lb.y_max_roland
                     THEN lb.tiles_y_max
                     ELSE IF PastCap(lb.tiles_y_max + 1) THEN lb.tiles_y_max + 1
                     ELSE 0} :
          lb' = IF left # 0
                THEN [lb EXCEPT !.evals = Evaluated, !.pc = "returned",
                                !.tiles_y_max = left,
                                !.returned = [tiles_x_min |-> lb.tiles_x_min,
                                              tiles_y_min |-> lb.tiles_y_min,
                                              tiles_x_max |-> lb.tiles_x_max,
                                              tiles_y_max |-> left]]
                ELSE [lb EXCEPT !.evals = Evaluated, !.tiles_y_max = lb.tiles_y_max + 1]
    /\ UNCHANGED <<engineVars, tabVars, call, polyVars, cacheVars, search, workerVars>>

NextBounds == XMinPass \/ YMinPass \/ XMaxPass \/ YMaxPass

SpecBounds == InitBounds /\ [][NextBounds]_vars

\* The method runs on: a loop that can make a pass makes it.
SpecBoundsFair == SpecBounds /\ WF_vars(NextBounds)

(***************************************************************************)
(* TileTab and its NestingWorker threads.  workers[id] is the thread id:   *)
(* its copy of the parameters, its engine_args, where its run() is (pc),   *)
(* and the context of the request that started it.  mainq holds the        *)
(* signals the threads emitted, delivered to the slots of TileTab on the   *)
(* main thread in the order of emission.  wlog records the thread and the  *)
(* handler of the last step, the requests made and dropped so far, and     *)
(* what the last run of the completion handler worked with.                *)
(***************************************************************************)
\* Nesting requests followed in one behaviour.
MaxRuns == 3

\* NestingEngine(params): an engine of its own, both slots empty.
NewEngine ==
    [nesting_cache_width |-> EmptyCache, nesting_cache_height |-> EmptyCache,
     last_cache_key_width |-> None, last_cache_key_height |-> None]

\* The engine_args _run_nesting_optimization builds from the form.
EngineArgs(s, objective, can_use_cache) ==
    [tiles_x |-> s.tiles_x, tiles_y |-> s.tiles_y,
     paso_y |-> s.paso_y, paso_x |-> s.paso_x, clearance_cm |-> s.clearance,
     medianil_x |-> s.medianil_x, medianil_y |-> s.medianil_y,
     objective |-> objective, force_recalculate |-> ~can_use_cache]

\* The context _run_nesting_optimization builds.
Context(engine_args, signature, s) ==
    [engine_args |-> engine_args, signature |-> signature,
     x_limits |-> <<s.xmin, s.xmax>>, y_limits |-> <<s.ymin, s.ymax>>]

\* What _on_nesting_worker_success takes from the context ctx, with the
\* defaults of dict.get when the context is empty; the bed limits are then
\* read from the form.
HandlerArgs(ctx, s) ==
    IF ctx = None
    THEN [objective |-> "width", tiles_x |-> 1, tiles_y |-> 1,
          medianil_x |-> 0, medianil_y |-> 0, signature |-> None,
          limits_read |-> TRUE,
          x_limits |-> <<s.xmin, s.xmax>>, y_limits |-> <<s.ymin, s.ymax>>]
    ELSE [objective |-> ctx.engine_args.objective,
          tiles_x |-> ctx.engine_args.tiles_x, tiles_y |-> ctx.engine_args.tiles_y,
          medianil_x |-> ctx.engine_args.medianil_x,
          medianil_y |-> ctx.engine_args.medianil_y,
          signature |-> ctx.signature, limits_read |-> FALSE,
          x_limits |-> ctx.x_limits, y_limits |-> ctx.y_limits]

\* _ensure_layout_within_limits with the limits given: TRUE when it
\* returns, FALSE when it raises ValueError.
LimitsAllow(x_limits, y_limits, medida_x, medida_y) ==
    /\ ~(medida_x < x_limits[1] \/ medida_x > x_limits[2])
    /\ ~(medida_y < y_limits[1] \/ medida_y > y_limits[2])

\* target_cache.store(cache_entry, cache_key) in the completion handler:
\* the slot of the objective of the engine of TileTab.
StoreInSlot(e, objective, cache_entry, cache_key) ==
    IF objective = "width"
    THEN [e EXCEPT !.nesting_cache_width = CacheStore(cache_entry, cache_key)]
    ELSE [e EXCEPT !.nesting_cache_height = CacheStore(cache_entry, cache_key)]

\* How a run of the completion handler ended.
HandlerOutcome(e, sigs, a, stored, raised, completed) ==
    [engine |-> e, sigs |-> sigs, args |-> a,
     stored |-> IF stored THEN [objective |-> a.objective] ELSE None,
     raised |-> raised, completed |-> completed]

\* TileTab._on_nesting_worker_success(payload) with _worker_context = ctx,
\* the engine e of TileTab, the signatures sigs, the parameters p and the
\* form s: the motif goes to the slot of the objective of the context, the
\* signature of the context is recorded, the layout is measured and
\* checked against the bed, and the cache key is recorded as signature.
on_nesting_worker_success(ctx, payload, e, sigs, p, s) ==
    Only({
        IF payload.nesting_result = None
        THEN HandlerOutcome(e, sigs, a, FALSE, FALSE, FALSE)
        ELSE Only({
            IF a.limits_read /\ ~BedLimitsValid(s)
            THEN HandlerOutcome(e1, sigs1, a, stored, TRUE, FALSE)
            ELSE Only({
                IF ~LimitsAllow(a.x_limits, a.y_limits, dims[1], dims[2])
                THEN HandlerOutcome(e1, sigs1, a, stored, TRUE, FALSE)
                ELSE HandlerOutcome(e1, [sigs1 EXCEPT ![a.objective] = payload.cache_key],
                                    a, stored, FALSE, TRUE)
                : dims \in {Only({ apply_margins_to_dims(s, bbox[3] - bbox[1],
                                                         bbox[4] - bbox[2])
                                   : bbox \in {calculate_global_bbox(
                                                   p, e1.nesting_cache_width,
                                                   e1.nesting_cache_height,
                                                   a.tiles_x, a.tiles_y,
                                                   a.medianil_x, a.medianil_y,
                                                   a.objective)} })} })
            : stored \in {payload.cache_entry # None /\ payload.cache_key # None},
              e1 \in {IF payload.cache_entry # None /\ payload.cache_key # None
                      THEN StoreInSlot(e, a.objective, payload.cache_entry,
                                       payload.cache_key)
                      ELSE e},
              sigs1 \in {IF a.signature # None
                         THEN [sigs EXCEPT ![a.objective] = a.signature]
                         ELSE sigs} })
        : a \in {HandlerArgs(ctx, s)} })

\* What a run of the completion handler leaves in wlog: the context of the
\* request that started the run the payload comes from, the context the
\* handler found, what it worked with and how it ended.
Completion(request, ctx, payload, out) ==
    [request |-> request, ctx |-> ctx, payload |-> payload, args |-> out.args,
     stored |-> out.stored, raised |-> out.raised, completed |-> out.completed]

\* A faulty test of _start_nesting_worker: no worker is ever seen active.
NoWorkerSeen(aw) == FALSE

\* if self._active_worker
WorkerActive(aw) == aw # None

\* NestingWorker.run up to result_ready.emit(payload): a search on an
\* engine of its own with the copy of the parameters.
NestingWorker_run(w) ==
    Only({ [nesting_result |-> out.result,
            cache_entry |-> SlotOf(out.engine.nesting_cache_width,
                                   out.engine.nesting_cache_height,
                                   w.engine_args.objective).pattern_data,
            cache_key |-> SlotOf(out.engine.nesting_cache_width,
                                 out.engine.nesting_cache_height,
                                 w.engine_args.objective).cache_key]
           : out \in {calculate_optimal_nesting(
                          NewEngine, w.params, w.engine_args.objective,
                          <<w.engine_args.paso_y, w.engine_args.paso_x,
                            w.engine_args.clearance_cm>>,
                          w.engine_args.force_recalculate)} })

\* nesting_min_width, nesting_min_height: _run_nesting_optimization.  With
\* bed limits _read_bed_limits refuses the exception is caught and nothing
\* else happens.  With a motif in the slot and a current signature the
\* completion handler is called at once with the cached motif and the
\* context is emptied afterwards, unless the handler raised.  Else
\* _start_nesting_worker: the request is dropped when a worker is active,
\* or the context is kept and a worker is started on a copy of the
\* parameters.
RunNestingOptimization(objective) ==
    /\ wlog.runs < MaxRuns
    /\ UNCHANGED <<params, last_cache_key_width, last_cache_key_height, last, ncalls,
                   edited, sb, layout_width, layout_height, layout_optimo,
                   call, polyVars, cacheVars, lb, search, mainq>>
    /\ IF ~BedLimitsValid(sb)
       THEN /\ wlog' = [wlog EXCEPT !.thread = "main", !.handler = "refused",
                                    !.runs = wlog.runs + 1]
            /\ UNCHANGED <<nesting_cache_width, nesting_cache_height,
                           cache_signatures, workers, active_worker, worker_context>>
       ELSE \E signature \in {build_cache_signature(params, sb)},
               cache_obj \in {SlotOf(nesting_cache_width, nesting_cache_height,
                                     objective)} :
            \E can_use_cache \in {cache_obj.pattern_data # None
                                  /\ cache_signatures[objective] = signature} :
            \E context \in {Context(EngineArgs(sb, objective, can_use_cache),
                                    signature, sb)} :
            IF can_use_cache /\ cache_obj.cache_key # None
            THEN \E payload \in {[nesting_result |-> cache_obj.pattern_data,
                                  cache_entry |-> cache_obj.pattern_data,
                                  cache_key |-> cache_obj.cache_key]} :
                 \E out \in {on_nesting_worker_success(
                                 context, payload, Engine, cache_signatures,
                                 params, sb)} :
                    /\ nesting_cache_width' = out.engine.nesting_cache_width
                    /\ nesting_cache_height' = out.engine.nesting_cache_height
                    /\ cache_signatures' = out.sigs
                    /\ worker_context' = IF out.raised THEN context ELSE None
                    /\ wlog' = [wlog EXCEPT
                                   !.thread = "main", !.handler = "cached",
                                   !.runs = wlog.runs + 1,
                                   !.completion = Completion(context, context,
                                                             payload, out)]
                    /\ UNCHANGED <<workers, active_worker>>
            ELSE IF WorkerActive(active_worker)
            THEN /\ wlog' = [wlog EXCEPT !.thread = "main", !.handler = "dropped",
                                         !.runs = wlog.runs + 1,
                                         !.dropped = wlog.dropped + 1]
                 /\ UNCHANGED <<nesting_cache_width, nesting_cache_height,
                                cache_signatures, workers, active_worker,
                                worker_context>>
            ELSE /\ worker_context' = context
                 /\ workers' = Append(workers,
                                      [params |-> params,
                                       engine_args |-> context.engine_args,
                                       request |-> context,
                                       pc |-> "started", payload |-> None])
                 /\ active_worker' = [id |-> Len(workers) + 1]
                 /\ wlog' = [wlog EXCEPT !.thread = "main", !.handler = "started",
                                         !.runs = wlog.runs + 1]
                 /\ UNCHANGED <<nesting_cache_width, nesting_cache_height,
                                cache_signatures>>

\* The thread id runs NestingWorker.run and emits result_ready.
WorkerRun(id) ==
    /\ id \in DOMAIN workers
    /\ workers[id].pc = "started"
    /\ \E payload \in {NestingWorker_run(workers[id])} :
        /\ workers' = [workers EXCEPT ![id].pc = "emitted", ![id].payload = payload]
        /\ mainq' = Append(mainq, [signal |-> "result_ready", id |-> id,
                                   payload |-> payload])
    /\ wlog' = [wlog EXCEPT !.thread = "worker", !.handler = "run"]
    /\ UNCHANGED <<engineVars, tabVars, call, polyVars, cacheVars, lb, search,
                   active_worker, worker_context>>

\* run() of the thread id returned: QThread emits finished.
WorkerExit(id) ==
    /\ id \in DOMAIN workers
    /\ workers[id].pc = "emitted"
    /\ workers' = [workers EXCEPT ![id].pc = "finished"]
    /\ mainq' = Append(mainq, [signal |-> "finished", id |-> id, payload |-> None])
    /\ wlog' = [wlog EXCEPT !.thread = "worker", !.handler = "exit"]
    /\ UNCHANGED <<engineVars, tabVars, call, polyVars, cacheVars, lb, search,
                   active_worker, worker_context>>

\* The main thread delivers result_ready to _on_nesting_worker_success.
DeliverResultReady ==
    /\ mainq # <<>>
    /\ Head(mainq).signal = "result_ready"
    /\ mainq' = Tail(mainq)
    /\ \E out \in {on_nesting_worker_success(
                       worker_context, Head(mainq).payload, Engine,
                       cache_signatures, params, sb)} :
        /\ nesting_cache_width' = out.engine.nesting_cache_width
        /\ nesting_cache_height' = out.engine.nesting_cache_height
        /\ cache_signatures' = out.sigs
        /\ wlog' = [wlog EXCEPT
                       !.thread = "main", !.handler = "result_ready",
                       !.completion = Completion(workers[Head(mainq).id].request,
                                                 worker_context,
                                                 Head(mainq).payload, out)]
    /\ UNCHANGED <<params, last_cache_key_width, last_cache_key_height, last, ncalls,
                   edited, sb, layout_width, layout_height, layout_optimo,
                   call, polyVars, cacheVars, lb, search,
                   workers, active_worker, worker_context>>

\* The main thread delivers finished to _cleanup_worker.
DeliverFinished ==
    /\ mainq # <<>>
    /\ Head(mainq).signal = "finished"
    /\ mainq' = Tail(mainq)
    /\ active_worker' = None
    /\ worker_context' = None
    /\ wlog' = [wlog EXCEPT !.thread = "main", !.handler = "finished"]
    /\ UNCHANGED <<engineVars, tabVars, call, polyVars, cacheVars, lb, search, workers>>

\* The tile counts the user can set in the form.
TileCounts == {1, 2}

\* The user edits sb_tiles_x or sb_tiles_y.
SetTiles(tiles_x, tiles_y) ==
    /\ <<sb.tiles_x, sb.tiles_y>> # <<tiles_x, tiles_y>>
    /\ sb' = [sb EXCEPT !.tiles_x = SetTilesSpin(tiles_x),
                        !.tiles_y = SetTilesSpin(tiles_y)]
    /\ wlog' = [wlog EXCEPT !.thread = "main", !.handler = "tiles"]
    /\ UNCHANGED <<engineVars, cache_signatures, layout_width, layout_height,
                   layout_optimo, call, polyVars, cacheVars, lb, search,
                   workers, active_worker, worker_context, mainq>>

NextWorker ==
    \/ \E objective \in {"width", "height"} : RunNestingOptimization(objective)
    \/ \E id \in 1..MaxRuns : WorkerRun(id)
    \/ \E id \in 1..MaxRuns : WorkerExit(id)
    \/ DeliverResultReady
    \/ DeliverFinished
    \/ \E tiles_x \in TileCounts, tiles_y \in TileCounts : SetTiles(tiles_x, tiles_y)

SpecWorker == Init /\ [][NextWorker]_vars

(***************************************************************************)
(* calculate_optimal_nesting called on the main thread, with the events    *)
(* that _pump_ui_events lets in between its stages.  search holds the call *)
(* in progress: its arguments, the parameters the base polygon was built   *)
(* from (built), and, once it returned, what it returned and the key it    *)
(* stored.  The parameter object is the one PlanoTab.sync_params writes.   *)
(***************************************************************************)
\* No call is in progress.
Idle == IF search = None THEN TRUE ELSE search.pc = "returned"

\* calculate_optimal_nesting up to build_tile_orthopoly_and_edges_cm: a
\* motif valid in the cache is returned at once; else the base polygon is
\* built from the parameters as they are now and the search starts.
BeginCalculation(objective, sp, force) ==
    /\ Idle
    /\ ncalls < MaxCalls
    /\ ncalls' = ncalls + 1
    /\ \E cached \in {IF force THEN None
                      ELSE RenderFromCache(params, nesting_cache_width,
                                           nesting_cache_height, objective)} :
          search' = [pc |-> IF cached # None THEN "returned" ELSE "searching",
                     objective |-> objective, sp |-> sp, force |-> force,
                     built |-> params, hit |-> cached # None,
                     result |-> IF cached # None THEN Motif(cached) ELSE None,
                     stored |-> None]
    /\ UNCHANGED <<params, nesting_cache_width, nesting_cache_height,
                   last_cache_key_width, last_cache_key_height, last, edited,
                   tabVars, call, polyVars, cacheVars, lb, workerVars>>

\* The rest of calculate_optimal_nesting: the motif found for the polygon
\* built at the start; None is returned when there is none, else
\* _store_nesting_result stores it under the key of the parameters as they
\* are when it is called.
FinishCalculation ==
    /\ search # None /\ search.pc = "searching"
    /\ \E calc \in {Calculation(search.built, search.sp[1], search.sp[2],
                                search.sp[3], search.objective)} :
          IF calc.best = None
          THEN /\ SetEngine(ReturnNone(Engine))
               /\ search' = [search EXCEPT !.pc = "returned"]
          ELSE /\ SetEngine(StoreNestingResult(Engine, params, calc.best,
                                               search.sp[1], search.sp[2],
                                               search.sp[3], search.objective))
               /\ search' = [search EXCEPT
                                !.pc = "returned", !.result = Motif(calc.best),
                                !.stored = GenerateCacheKey(
                                               params, search.sp[1], search.sp[2],
                                               search.sp[3], search.objective)]
    /\ UNCHANGED <<params, last, ncalls, edited, tabVars, call, polyVars,
                   cacheVars, lb, workerVars>>

\* The grid calculate_global_bbox is asked for.
PumpGrids == {<<2, 1>>}

\* The spin boxes of PlanoTab edited while TileTab is at work.
PumpEdits == {<<"L", 1>>, <<"Tapas", 1>>}

\* NestingEngine.calculate_global_bbox(tiles_x, tiles_y, 0, 0, objective)
\* between two calls of calculate_optimal_nesting: `call` keeps whether
\* the motif of the slot was used, the key of that slot, the key of the
\* parameters as they are now, and the box.
GlobalBbox(objective, grid) ==
    /\ Idle
    /\ \E cache \in {SlotOf(nesting_cache_width, nesting_cache_height, objective)} :
          call' = [op |-> "calculate_global_bbox", objective |-> objective,
                   grid |-> grid,
                   from_motif |-> cache.pattern_data # None,
                   slot_key |-> cache.cache_key,
                   current_key |-> IF cache.pattern_data = None THEN None
                                   ELSE GenerateCacheKey(
                                            params, cache.pattern_data.paso_y,
                                            cache.pattern_data.paso_x,
                                            cache.pattern_data.clearance_cm,
                                            cache.pattern_data.objective),
                   bbox |-> calculate_global_bbox(params, nesting_cache_width,
                                                  nesting_cache_height,
                                                  grid[1], grid[2], 0, 0, objective)]
    /\ UNCHANGED <<engineVars, tabVars, polyVars, cacheVars, lb, search, workerVars>>

NextPump ==
    \/ \E objective \in Objectives, sp \in SearchParams, force \in BOOLEAN :
          BeginCalculation(objective, sp, force)
    \/ FinishCalculation
    \/ \E fs \in PumpEdits : \E v \in FieldValues(fs[1]) :
          SyncParams(fs[1], fs[2], v)
    \/ \E objective \in Objectives, grid \in PumpGrids : GlobalBbox(objective, grid)

SpecPump == Init /\ [][NextPump]_vars

(***************************************************************************)
(* Functions of the program applied to given inputs, one application in a  *)
(* behaviour: `call` records the function, its arguments and what it       *)
(* returned.                                                               *)
(***************************************************************************)
\* total_tiles and area of the LayoutResults given to _compare_layouts.
TileTotals == {4, 6}
LayoutAreas == {100, 120}

\* The LayoutResults of one objective, and no result.
LayoutInputs(objective) ==
    {None} \cup {[total_tiles |-> t, area |-> a, objective |-> objective]
                 : t \in TileTotals, a \in LayoutAreas}

\* TileTab._compare_layouts(layout_width, layout_height).
CompareLayouts(lw, lh) ==
    /\ call = None
    /\ call' = [op |-> "compare_layouts", layout_width |-> lw, layout_height |-> lh,
                result |-> compare_layouts(lw, lh)]
    /\ UNCHANGED <<engineVars, tabVars, objVars>>

\* Tiles per sheet, volumes and minimum shots the shot counts are computed for.
ShotTiles == {1, 4, 20}
ShotVolumes == {1, 96, 100}
ShotMinimums == {0, 5, 10, 30}

\* TileTab._calculate_production_metrics on the minimal grid (tmin x 1) and
\* the maximal grid (tmax x 1).
CalculateProductionMetrics(tmin, tmax, volumen, tiros_minimos) ==
    /\ call = None
    /\ call' = [op |-> "_calculate_production_metrics",
                volumen |-> volumen, tiros_minimos |-> tiros_minimos,
                result |-> calculate_production_metrics(
                               [tiles_x_min |-> tmin, tiles_y_min |-> 1,
                                tiles_x_max |-> tmax, tiles_y_max |-> 1],
                               volumen, tiros_minimos)]
    /\ UNCHANGED <<engineVars, tabVars, objVars>>

\* The tiros_necesarios of a LayoutResult of total_tiles tiles.
LayoutTiros(total_tiles, volumen, tiros_minimos) ==
    /\ call = None
    /\ call' = [op |-> "tiros_necesarios", total_tiles |-> total_tiles,
                volumen |-> volumen, tiros_minimos |-> tiros_minimos,
                result |-> tiros_necesarios(volumen, total_tiles)]
    /\ UNCHANGED <<engineVars, tabVars, objVars>>

\* TileTab._compute_tiros(planilla) with the form showing volumen and
\* tiros_minimos.
ComputeTiros(planilla, volumen, tiros_minimos) ==
    /\ call = None
    /\ call' = [op |-> "_compute_tiros", total_tiles |-> planilla,
                volumen |-> volumen, tiros_minimos |-> tiros_minimos,
                result |-> compute_tiros(planilla, volumen, tiros_minimos)]
    /\ UNCHANGED <<engineVars, tabVars, objVars>>

\* ProductionParameters(volumen, tiros_minimos).calculate_production_metrics
\* (tiles_per_shot, area), max_tiros not given.
ProductionMetrics(tiles_per_shot, volumen, tiros_minimos) ==
    /\ call = None
    /\ call' = [op |-> "calculate_production_metrics", total_tiles |-> tiles_per_shot,
                volumen |-> volumen, tiros_minimos |-> tiros_minimos,
                result |-> production_tiros_necesarios(
                               [volumen |-> volumen, tiros_minimos |-> tiros_minimos,
                                max_tiros |-> None], tiles_per_shot)]
    /\ UNCHANGED <<engineVars, tabVars, objVars>>

\* Motifs given to calculate_global_bbox: two tile shapes (a bar and an L)
\* and offsets of either sign.
TileShapes ==
    {RectCells(<<0, 0, 2, 1>>),
     RectCells(<<0, 0, 1, 3>>) \cup RectCells(<<0, 2, 2, 1>>)}
SecondOffsets == {-2, 0, 3}
ThirdOffsets == {-3, 4}

CachedMotifs ==
    {PatternData([poly1 |-> a, poly2T |-> b, poly3T |-> a,
                  dx2 |-> dx2, dy2 |-> dy2, dx3 |-> dx3, dy3 |-> dy3,
                  rot1 |-> 90, rot2 |-> 270], 1, 1, 0, "width")
       : a \in TileShapes, b \in TileShapes, dx2 \in SecondOffsets,
         dy2 \in SecondOffsets, dx3 \in ThirdOffsets, dy3 \in ThirdOffsets}

\* Column and row gaps.
Medianils == {0, 1}

\* Grids calculate_global_bbox is asked for.
BboxTilesX == 5
BboxTilesY == 2

\* The engine slot that holds pattern_data pd.
SlotWith(pd) ==
    CacheStore(pd, GenerateCacheKey(params, pd.paso_y, pd.paso_x, pd.clearance_cm,
                                    pd.objective))

\* NestingEngine.calculate_global_bbox(tiles_x, tiles_y, medianil_x,
\* medianil_y, "width") on an engine whose width slot holds pd.
CalculateGlobalBbox(pd, tiles_x, tiles_y, medianil_x, medianil_y) ==
    /\ call = None
    /\ call' = [op |-> "calculate_global_bbox", pattern_data |-> pd,
                tiles_x |-> tiles_x, tiles_y |-> tiles_y,
                medianil_x |-> medianil_x, medianil_y |-> medianil_y,
                placement |-> GridPlacement(pd, tiles_x, tiles_y,
                                            medianil_x, medianil_y),
                result |-> calculate_global_bbox(params, SlotWith(pd), EmptyCache,
                                                 tiles_x, tiles_y,
                                                 medianil_x, medianil_y, "width")]
    /\ UNCHANGED <<engineVars, tabVars, objVars>>

\* A field of a LayoutRequest holds a number or None (from_dict takes what
\* the payload holds).
Num(n) == [num |-> n]

\* The TypeError of None <= 0 and the one of a number + None, with their
\* str(exc).
TypeErrorCompare ==
    [type |-> "TypeError",
     text |-> "'<=' not supported between instances of 'NoneType' and 'int'"]
TypeErrorAdd ==
    [type |-> "TypeError",
     text |-> "unsupported operand type(s) for +: 'float' and 'NoneType'"]

LayoutResponse(success, layout, message) ==
    [success |-> success, layout |-> layout, message |-> message]

\* What runs inside the try of optimize_layout: a response is returned or
\* an exception is raised; bbox_calls counts the calls of
\* calculate_global_bbox.  The engine is new, so both of its slots are
\* empty.  Lengths are whole numbers, which round(v, 2) leaves as they are.
optimize_layout_try(request) ==
    IF request.tiles_x = None
    THEN [raised |-> TypeErrorCompare, response |-> None, bbox_calls |-> 0]
    ELSE IF request.tiles_x.num <= 0
    THEN [raised |-> None, bbox_calls |-> 0,
          response |-> LayoutResponse(FALSE, None,
              "La cantidad de tiles debe ser mayor a 0 en ambos ejes.")]
    ELSE IF request.tiles_y = None
    THEN [raised |-> TypeErrorCompare, response |-> None, bbox_calls |-> 0]
    ELSE IF request.tiles_y.num <= 0
    THEN [raised |-> None, bbox_calls |-> 0,
          response |-> LayoutResponse(FALSE, None,
              "La cantidad de tiles debe ser mayor a 0 en ambos ejes.")]
    ELSE Only({
        IF request.sangria_izquierda = None
        THEN [raised |-> TypeErrorAdd, response |-> None, bbox_calls |-> 1]
        ELSE Only({
            [raised |-> None, bbox_calls |-> 1,
             response |-> LayoutResponse(TRUE,
                 [tiles_x |-> request.tiles_x.num,
                  tiles_y |-> request.tiles_y.num,
                  planilla |-> request.tiles_x.num * request.tiles_y.num,
                  medida_x_cm |-> medida_x_total,
                  medida_y_cm |-> medida_y_total,
                  area_cm2 |-> medida_x_total * medida_y_total,
                  objective |-> request.objective], None)]
            : medida_x_total \in {(bbox[3] - bbox[1]) + request.sangria_izquierda.num
                                    + request.sangria_derecha},
              medida_y_total \in {(bbox[4] - bbox[2]) + request.pinza
                                    + request.contra_pinza} })
        : bbox \in {calculate_global_bbox(request.params, EmptyCache, EmptyCache,
                                          request.tiles_x.num, request.tiles_y.num,
                                          request.medianil_x, request.medianil_y,
                                          request.objective)} })

\* An optimize_layout without the except clause.
OptimizeLayoutUncaught(request) == optimize_layout_try(request)

\* optimize_layout(request): an exception raised inside the try becomes a
\* response with success False and str(exc) as message.
optimize_layout(request) ==
    Only({ IF body.raised # None
           THEN [raised |-> None, bbox_calls |-> body.bbox_calls,
                 response |-> LayoutResponse(FALSE, None, body.raised.text)]
           ELSE body
           : body \in {optimize_layout_try(request)} })

LayoutRequests ==
    [params : {params},
     tiles_x : {Num(-1), Num(0), Num(1), Num(2), None},
     tiles_y : {Num(0), Num(1), Num(3), None},
     medianil_x : {0}, medianil_y : {1},
     sangria_izquierda : {Num(0), Num(1), None}, sangria_derecha : {1},
     pinza : {0}, contra_pinza : {1},
     objective : {"width", "height"}]

\* optimize_layout(request)
ServiceOptimizeLayout(request) ==
    /\ call = None
    /\ call' = [op |-> "optimize_layout", request |-> request,
                body |-> optimize_layout_try(request),
                result |-> optimize_layout(request)]
    /\ UNCHANGED <<engineVars, tabVars, objVars>>

\* A comparison that also takes a key that is not smaller.
KeyNotWorse(key, global_key, eps) ==
    ~(global_key[1] < key[1] - eps)

\* The comparison of calculate_optimal_nesting with the best solution so
\* far, with the tolerance eps on each component.
KeyBetterWithin(key, global_key, eps) ==
    IF key[1] < global_key[1] - eps THEN TRUE
    ELSE IF Abs(key[1] - global_key[1]) <= eps
    THEN IF key[2] < global_key[2] - eps THEN TRUE
         ELSE IF Abs(key[2] - global_key[2]) <= eps
         THEN key[3] < global_key[3] - eps
         ELSE FALSE
    ELSE FALSE

\* The loop over rot1 in (90, 270) on the candidates of the orientations
\* (None: the orientation gave no complete motif): global_best after the
\* candidates 1..n.  The first complete candidate is below the initial key
\* (inf, inf, inf).
RECURSIVE GlobalBestAfter(_, _, _, _)
GlobalBestAfter(objective, cands, eps, n) ==
    IF n = 0 THEN None
    ELSE Only({
        IF cands[n] = None THEN global_best
        ELSE IF global_best = None THEN cands[n]
        ELSE IF KeyBetterWithin(
                    ObjectiveKey(objective, cands[n].gwidth, cands[n].gheight,
                                 cands[n].garea),
                    ObjectiveKey(objective, global_best.gwidth, global_best.gheight,
                                 global_best.garea), eps)
        THEN cands[n] ELSE global_best
        : global_best \in {GlobalBestAfter(objective, cands, eps, n - 1)} })

\* Complete candidates of an orientation by the size of their box, and the
\* tolerances, in units in which DEFAULT_CONSTANTS.EPSILON is 0 or 2.
BoxSizes == {4, 5, 7}
Epsilons == {0, 2}
OrientationCandidates(rot1) ==
    {[rot1 |-> rot1, gwidth |-> w, gheight |-> h, garea |-> w * h]
       : w \in BoxSizes, h \in BoxSizes} \cup {None}

\* The selection of calculate_optimal_nesting between the candidates of
\* the two base orientations.
SelectGlobalBest(objective, c90, c270, eps) ==
    /\ call = None
    /\ call' = [op |-> "global_best", objective |-> objective, eps |-> eps,
                c90 |-> c90, c270 |-> c270,
                result |-> GlobalBestAfter(objective, <<c90, c270>>, eps, 2)]
    /\ UNCHANGED <<engineVars, tabVars, objVars>>

\* The ZeroDivisionError of volumen / 0.
ZeroDivisionError == [type |-> "ZeroDivisionError", text |-> "division by zero"]

\* A selection that takes the maximal grid only for a positive minimum.
MaximalNeedsMinimum(m) ==
    Only({ [tipo_planilla |-> tipo,
            total_tiles_necesario |->
                IF tipo # "intermedia" THEN None
                ELSE IF m.tiros_minimos = 0 THEN [raised |-> ZeroDivisionError]
                ELSE Num(Ceil(m.volumen, m.tiros_minimos))]
           : tipo \in {IF m.tiros_con_min <= m.tiros_minimos THEN "minima"
                       ELSE IF m.tiros_minimos > 0
                               /\ m.tiros_con_max >= m.tiros_minimos THEN "maxima"
                       ELSE "intermedia"} })

\* TileTab._find_optimal_layout on the metrics m, up to the call of
\* _find_intermediate_layout: the class chosen and, in the intermediate
\* branch, math.ceil(volumen / tiros_minimos) or the exception it raises.
FindOptimalLayoutBranch(m) ==
    Only({ [tipo_planilla |-> tipo,
            total_tiles_necesario |->
                IF tipo # "intermedia" THEN None
                ELSE IF m.tiros_minimos = 0 THEN [raised |-> ZeroDivisionError]
                ELSE Num(Ceil(m.volumen, m.tiros_minimos))]
           : tipo \in {StrategySelection(m.tiros_con_min, m.tiros_con_max,
                                         m.tiros_minimos)} })

\* Tiles of the minimal and of the maximal grid, volumes and minimum shots
\* _find_optimal_layout is applied to.
BranchTiles == {1, 2, 4, 20, 100}
BranchVolumes == {1, 2, 96, 100}
BranchMinimums == {0, 1, 2, 5, 30}

\* _calculate_production_metrics and _find_optimal_layout for the minimal
\* grid tmin x 1 and the maximal grid tmax x 1.
FindOptimalLayout(tmin, tmax, volumen, tiros_minimos) ==
    /\ call = None
    /\ tmin <= tmax
    /\ \E m \in {calculate_production_metrics(
                     [tiles_x_min |-> tmin, tiles_y_min |-> 1,
                      tiles_x_max |-> tmax, tiles_y_max |-> 1],
                     volumen, tiros_minimos)} :
          call' = [op |-> "_find_optimal_layout", metrics |-> m,
                   branch |-> FindOptimalLayoutBranch(m)]
    /\ UNCHANGED <<engineVars, tabVars, objVars>>

\* A drawing whose third column is moved by one column gap, not two.
PositionOneGap(pd, vertical_offset, row, col, medianil_x) ==
    Only({
        IF col = 0 THEN [poly |-> 1, ox |-> 0, oy |-> row_offset_y]
        ELSE IF col = 1
        THEN [poly |-> 2, ox |-> pd.dx2 + medianil_x, oy |-> pd.dy2 + row_offset_y]
        ELSE IF col = 2
        THEN [poly |-> 3, ox |-> pd.dx3 + medianil_x, oy |-> pd.dy3 + row_offset_y]
        ELSE IF col % 2 = 1
        THEN Only({ [poly |-> 2, ox |-> prev[1] + pd.dx2 + medianil_x,
                     oy |-> prev[2] + pd.dy2 + row_offset_y]
                    : prev \in {<<pd.dx3 * ((col - 1) \div 2) + (col - 1) * medianil_x,
                                  pd.dy3 * ((col - 1) \div 2)>>} })
        ELSE Only({ [poly |-> 3, ox |-> prev[1] + (pd.dx3 - pd.dx2) + medianil_x,
                     oy |-> prev[2] + (pd.dy3 - pd.dy2) + row_offset_y]
                    : prev \in {<<pd.dx2 + pd.dx3 * ((col - 2) \div 2)
                                    + (col - 1) * medianil_x,
                                  pd.dy2 + pd.dy3 * ((col - 2) \div 2)>>} })
        : row_offset_y \in {row * vertical_offset} })

\* TileScene.draw_tiling_pattern: what the two loops append to `positions`
\* for (row, col): the polygon (1 for poly1, 2 for poly2T, 3 for poly3T)
\* and its offsets.
DrawPosition(pd, vertical_offset, row, col, medianil_x) ==
    Only({
        IF col = 0 THEN [poly |-> 1, ox |-> 0, oy |-> row_offset_y]
        ELSE IF col = 1
        THEN [poly |-> 2, ox |-> pd.dx2 + medianil_x, oy |-> pd.dy2 + row_offset_y]
        ELSE IF col = 2
        THEN [poly |-> 3, ox |-> pd.dx3 + 2 * medianil_x, oy |-> pd.dy3 + row_offset_y]
        ELSE IF col % 2 = 1
        THEN Only({ [poly |-> 2, ox |-> prev[1] + pd.dx2 + medianil_x,
                     oy |-> prev[2] + pd.dy2 + row_offset_y]
                    : prev \in {<<pd.dx3 * ((col - 1) \div 2) + (col - 1) * medianil_x,
                                  pd.dy3 * ((col - 1) \div 2)>>} })
        ELSE Only({ [poly |-> 3, ox |-> prev[1] + (pd.dx3 - pd.dx2) + medianil_x,
                     oy |-> prev[2] + (pd.dy3 - pd.dy2) + row_offset_y]
                    : prev \in {<<pd.dx2 + pd.dx3 * ((col - 2) \div 2)
                                    + (col - 1) * medianil_x,
                                  pd.dy2 + pd.dy3 * ((col - 2) \div 2)>>} })
        : row_offset_y \in {row * vertical_offset} })

\* TileScene.draw_tiling_pattern(pattern_data, tiles_x, tiles_y,
\* medianil_x, medianil_y) up to the margin shift: `positions`, and the
\* box (min_layout_x, min_layout_y, max_layout_x, max_layout_y) of the
\* aabbs of the polygons moved by their offsets.
draw_tiling_pattern(pd, tiles_x, tiles_y, medianil_x, medianil_y) ==
    Only({ Only({ [positions |-> positions,
                   layout |-> <<SetMin({b[1] : b \in boxes}),
                                SetMin({b[2] : b \in boxes}),
                                SetMax({b[3] : b \in boxes}),
                                SetMax({b[4] : b \in boxes})>>]
                  : boxes \in {{ Only({ <<bb[1] + positions[rc].ox,
                                          bb[2] + positions[rc].oy,
                                          bb[3] + positions[rc].ox,
                                          bb[4] + positions[rc].oy>>
                                        : bb \in {polys[positions[rc].poly]} })
                                 : rc \in DOMAIN positions }} })
           : positions \in {[rc \in (0..(tiles_y - 1)) \X (0..(tiles_x - 1)) |->
                               DrawPosition(pd, Height(pd.poly1) + medianil_y,
                                            rc[1], rc[2], medianil_x)]},
             polys \in {<<aabb(pd.poly1), aabb(pd.poly2T), aabb(pd.poly3T)>>} })

\* TileScene.draw_tiling_pattern with the motif pd.
DrawTilingPattern(pd, tiles_x, tiles_y, medianil_x, medianil_y) ==
    /\ call = None
    /\ \E drawn \in {draw_tiling_pattern(pd, tiles_x, tiles_y,
                                         medianil_x, medianil_y)} :
          call' = [op |-> "draw_tiling_pattern", pattern_data |-> pd,
                   tiles_x |-> tiles_x, tiles_y |-> tiles_y,
                   medianil_x |-> medianil_x, medianil_y |-> medianil_y,
                   positions |-> drawn.positions, layout |-> drawn.layout]
    /\ UNCHANGED <<engineVars, tabVars, objVars>>

QuarterTurns == {90, 180, 270, 450}

\* OrthoPoly.rotated_copy(rot).
RotatedCopy(poly, rot) ==
    /\ call = None
    /\ call' = [op |-> "rotated_copy", poly |-> poly, rot |-> rot,
                result |-> OrthoPoly_rotated_copy(poly, rot)]
    /\ UNCHANGED <<engineVars, tabVars, objVars>>

NextUnits ==
    \/ \E tmin \in BranchTiles, tmax \in BranchTiles, volumen \in BranchVolumes,
          tiros_minimos \in BranchMinimums :
          FindOptimalLayout(tmin, tmax, volumen, tiros_minimos)
    \/ \E pd \in CachedMotifs, tiles_x \in 1..BboxTilesX, tiles_y \in 1..BboxTilesY,
          medianil_x \in Medianils, medianil_y \in Medianils :
          DrawTilingPattern(pd, tiles_x, tiles_y, medianil_x, medianil_y)
    \/ \E objective \in Objectives, eps \in Epsilons :
       \E c90 \in OrientationCandidates(90), c270 \in OrientationCandidates(270) :
          SelectGlobalBest(objective, c90, c270, eps)
    \/ \E request \in LayoutRequests : ServiceOptimizeLayout(request)
    \/ \E poly \in OrthoPolys, rot \in QuarterTurns : RotatedCopy(poly, rot)
    \/ \E pd \in CachedMotifs, tiles_x \in 1..BboxTilesX, tiles_y \in 1..BboxTilesY,
          medianil_x \in Medianils, medianil_y \in Medianils :
          CalculateGlobalBbox(pd, tiles_x, tiles_y, medianil_x, medianil_y)
    \/ \E t \in ShotTiles, u \in ShotTiles, v \in ShotVolumes, m \in ShotMinimums :
          t <= u /\ CalculateProductionMetrics(t, u, v, m)
    \/ \E t \in ShotTiles, v \in ShotVolumes, m \in ShotMinimums : LayoutTiros(t, v, m)
    \/ \E t \in ShotTiles, v \in ShotVolumes, m \in ShotMinimums : ComputeTiros(t, v, m)
    \/ \E t \in ShotTiles, v \in ShotVolumes, m \in ShotMinimums :
          ProductionMetrics(t, v, m)
    \/ \E lw \in LayoutInputs("width"), lh \in LayoutInputs("height") :
          CompareLayouts(lw, lh)

SpecUnits == Init /\ [][NextUnits]_vars

(***************************************************************************)
(* Properties of calculate_optimal_nesting and its two cache slots.        *)
(***************************************************************************)
\* A step that is a calculate_optimal_nesting call; last' describes it.
IsCall == ncalls' = ncalls + 1

\* The slot the call described by record c found for its objective.
SlotBefore(c) == SlotOf(c.width_before, c.height_before, c.objective)

SearchArgs(d) == <<d.paso_y, d.paso_x, d.clearance_cm>>

\* The three tiles of motif m keep clearance_cm from one another.
MotifClear(m, clearance_cm) ==
    \E second \in {translate(m.poly2T, m.dx2, m.dy2)},
       third \in {translate(m.poly3T, m.dx3, m.dy3)} :
        /\ ~polygons_intersect(m.poly1, second, clearance_cm)
        /\ ~polygons_intersect(m.poly1, third, clearance_cm)
        /\ ~polygons_intersect(second, third, clearance_cm)

\* C2: in every motif calculate_optimal_nesting returns, the base tile, the
\* second tile at (dx2, dy2) and the third tile at (dx3, dy3) are pairwise
\* disjoint and keep the clearance the call asked for.
C2_ReturnedMotifClear ==
    (last # None /\ last.result # None) => MotifClear(last.result, last.clearance_cm)

\* The same for the calls that ran the search: their motif keeps the
\* clearance.  Only a motif served from the cache can break C2.
C2_SearchedMotifClear ==
    (last # None /\ last.result # None /\ ~last.hit)
        => MotifClear(last.result, last.clearance_cm)

\* The cells of the tile at (row, col) of the grid assembled from motif m.
GridTile(m, row, col, medianil_x, medianil_y) ==
    Only({ translate(m[<<"poly1", "poly2T", "poly3T">>[TilePoly(col)]], o[1], o[2])
           : o \in {TileOffset(m, Height(m.poly1), row, col,
                               medianil_x, medianil_y)} })

\* No two distinct tiles of the tiles_x x tiles_y grid share a cell.
GridDisjoint(m, tiles_x, tiles_y, medianil_x, medianil_y) ==
    \E tile \in {[rc \in (0..(tiles_y - 1)) \X (0..(tiles_x - 1)) |->
                    GridTile(m, rc[1], rc[2], medianil_x, medianil_y)]} :
        \A a, b \in DOMAIN tile : a # b => tile[a] \cap tile[b] = {}

GridMax == 4

\* C3: for a motif the search returned, any tiles_x >= 1, tiles_y >= 1 and
\* any medianil_x >= 0, medianil_y >= 0, no two distinct tiles of the grid
\* the column/row recurrence assembles overlap.
C3_GridTilesDisjoint ==
    (last # None /\ last.result # None /\ ~last.hit)
        => \A tiles_x, tiles_y \in 1..GridMax : \A medianil_x, medianil_y \in Medianils :
               GridDisjoint(last.result, tiles_x, tiles_y, medianil_x, medianil_y)

\* C4: a call that repeats the previous call's arguments with
\* force_recalculate = false, the parameters untouched in between and the
\* previous call having returned a motif, is a cache hit: it runs no
\* placement search and returns the same rot1, rot2, dx2, dy2, dx3, dy3.
C4_RepeatedCallIsHit ==
    [][ ( /\ IsCall
          /\ last # None
          /\ last.result # None
          /\ params = last.params_before
          /\ last'.objective = last.objective
          /\ SearchArgs(last') = SearchArgs(last)
          /\ ~last'.force_recalculate )
        => ( /\ last'.hit
             /\ last'.searches = 0
             /\ last'.result # None
             /\ \A k \in {"rot1", "rot2", "dx2", "dy2", "dx3", "dy3"} :
                    last'.result[k] = last.result[k] ) ]_vars

\* A second call that found, in the slot of its objective, the entry a call
\* with its own arguments and parameters stores, and was served from it.
C4_Witness ==
    /\ ncalls = 2
    /\ last.hit
    /\ ~last.force_recalculate
    /\ last.searches = 0
    /\ SlotBefore(last).pattern_data # None
    /\ SlotBefore(last).pattern_data.objective = last.objective
    /\ SearchArgs(SlotBefore(last).pattern_data) = SearchArgs(last)
    /\ SlotBefore(last).cache_key =
          GenerateCacheKey(params, last.paso_y, last.paso_x, last.clearance_cm,
                           last.objective)
    /\ Motif(SlotBefore(last).pattern_data) = last.result

\* C5: once a motif is cached for an objective, a change of one geometry
\* parameter changes the cache key, and the next call for that objective
\* with force_recalculate = false is not served from the cache: it runs the
\* placement search.
C5_GeometryEditInvalidates ==
    [][ ( /\ IsCall
          /\ last # None
          /\ last.params_before # params
          /\ SlotOf(nesting_cache_width, nesting_cache_height,
                    last'.objective).pattern_data # None
          /\ ~last'.force_recalculate )
        => ( /\ \A sp \in SearchParams :
                   GenerateCacheKey(params, sp[1], sp[2], sp[3], last'.objective)
                     # GenerateCacheKey(last.params_before, sp[1], sp[2], sp[3],
                                        last'.objective)
             /\ ~last'.hit
             /\ last'.searches > 0 ) ]_vars

\* A call made after an edit of one entry of Tapas, with a motif cached for
\* its objective under the old parameters, that ran the search.
C5_Witness ==
    /\ last # None
    /\ edited
    /\ ~last.force_recalculate
    /\ SlotBefore(last).pattern_data # None
    /\ SlotBefore(last).cache_key.Tapas # last.params_before.Tapas
    /\ ~last.hit
    /\ last.searches > 0

\* C6: with a motif cached for an objective under search arguments
\* (paso_y, paso_x, clearance_cm) and the geometry unchanged, a call for
\* that objective with force_recalculate = false and a different paso_y,
\* paso_x or clearance_cm is not served from the cache.
C6_SearchArgsInvalidate ==
    ( /\ last # None
      /\ ~last.force_recalculate
      /\ SlotBefore(last).pattern_data # None
      /\ SlotBefore(last).pattern_data.objective = last.objective
      /\ SlotBefore(last).cache_key =
            GenerateCacheKey(last.params_before,
                             SlotBefore(last).pattern_data.paso_y,
                             SlotBefore(last).pattern_data.paso_x,
                             SlotBefore(last).pattern_data.clearance_cm,
                             last.objective)
      /\ SearchArgs(SlotBefore(last).pattern_data) # SearchArgs(last) )
    => ~last.hit

\* C7: the motif in the width slot was computed with objective "width",
\* the motif in the height slot with objective "height", and a cache hit
\* for an objective returns a motif computed for that objective.
C7_SlotPerObjective ==
    /\ nesting_cache_width.pattern_data # None
          => nesting_cache_width.pattern_data.objective = "width"
    /\ nesting_cache_height.pattern_data # None
          => nesting_cache_height.pattern_data.objective = "height"
    /\ (last # None /\ last.hit)
          => SlotBefore(last).pattern_data.objective = last.objective

\* C8: a call whose search finds no placement for base orientation 90 nor
\* for 270 returns None and leaves both slots, motif and key, as they
\* were, with force_recalculate = true as well.
C8_FailedSearchKeepsCache ==
    [][ ( /\ IsCall
          /\ ~last'.hit
          /\ Calculation(params, last'.paso_y, last'.paso_x, last'.clearance_cm,
                         last'.objective).best = None )
        => ( /\ last'.result = None
             /\ nesting_cache_width' = nesting_cache_width
             /\ nesting_cache_height' = nesting_cache_height
             /\ last_cache_key_width' = last_cache_key_width
             /\ last_cache_key_height' = last_cache_key_height ) ]_vars

\* A forced call that failed while the slot of its objective held a motif,
\* which is still there.
C8_Witness ==
    /\ last # None
    /\ last.force_recalculate
    /\ last.result = None
    /\ last.searches > 0
    /\ SlotBefore(last).pattern_data # None
    /\ nesting_cache_width = last.width_before
    /\ nesting_cache_height = last.height_before
    /\ last_cache_key_width = nesting_cache_width.cache_key
    /\ last_cache_key_height = nesting_cache_height.cache_key


(***************************************************************************)
(* Properties of the production optimizer.                                 *)
(***************************************************************************)
\* The layouts optimizar_layout computed, one per objective.
Layouts == {layout_width, layout_height} \ {None}

\* The shots a volume needs on a sheet of that many tiles.
Shots(volumen, tiles) == Max2(1, Ceil(volumen, tiles))

Within(x, lo, hi) == lo <= x /\ x <= hi

MinimalGrid(b) == [tiles_x |-> b.tiles_x_min, tiles_y |-> b.tiles_y_min]
MaximalGrid(b) == [tiles_x |-> b.tiles_x_max, tiles_y |-> b.tiles_y_max]

\* C1: for any bounds, volume >= 1 and minimum_shots >= 0,
\* _find_optimal_layout picks the minimal grid exactly when shots_at_min <=
\* minimum_shots, otherwise the maximal grid exactly when shots_at_max >=
\* minimum_shots, otherwise it takes the intermediate branch; volume 100,
\* minimum_shots 5, 4 tiles at the minimal grid and 20 at the maximal one
\* give class maximal.
C1_StrategyByShots ==
    \A l \in Layouts : l.bounds # None =>
        \E b \in {l.bounds}, volumen \in {l.metrics.volumen},
           minimum_shots \in {l.metrics.tiros_minimos} :
        \E shots_at_min \in {Shots(volumen, b.tiles_x_min * b.tiles_y_min)},
           shots_at_max \in {Shots(volumen, b.tiles_x_max * b.tiles_y_max)} :
            /\ volumen >= 1 /\ minimum_shots >= 0
            /\ (l.tipo_planilla = "minima") <=> (shots_at_min <= minimum_shots)
            /\ l.tipo_planilla = "minima" => l.layout_optimo = MinimalGrid(b)
            /\ (l.tipo_planilla = "maxima")
                  <=> (shots_at_min > minimum_shots /\ shots_at_max >= minimum_shots)
            /\ l.tipo_planilla = "maxima" => l.layout_optimo = MaximalGrid(b)
            /\ (l.tipo_planilla = "intermedia")
                  <=> (shots_at_min > minimum_shots /\ shots_at_max < minimum_shots)
            /\ ( /\ volumen = 100 /\ minimum_shots = 5
                 /\ b.tiles_x_min * b.tiles_y_min = 4
                 /\ b.tiles_x_max * b.tiles_y_max = 20 )
                  => l.tipo_planilla = "maxima"

\* The example of C1: volume 100, 5 minimum shots, 4 and 20 tiles per sheet,
\* class maximal.
C1_Witness ==
    \E l \in Layouts :
        /\ l.bounds # None
        /\ l.metrics.volumen = 100 /\ l.metrics.tiros_minimos = 5
        /\ l.metrics.planos_min = 4 /\ l.metrics.planos_max = 20
        /\ l.metrics.tiros_con_min = 25 /\ l.metrics.tiros_con_max = 5
        /\ l.tipo_planilla = "maxima"
        /\ l.layout_optimo = MaximalGrid(l.bounds)

\* C9: every LayoutResult _calculate_layout_for_objective returns has its
\* width with margins within [x_min, x_max] and its height with margins
\* within [y_min, y_max], whichever class was chosen; a chosen grid outside
\* the bed bounds gives None.
C9_ResultWithinBed ==
    \A l \in Layouts :
        /\ l.result # None =>
              /\ l.layout_optimo # None
              /\ l.result.tiles_x = l.layout_optimo.tiles_x
              /\ l.result.tiles_y = l.layout_optimo.tiles_y
              /\ l.result.ancho = l.dims.ancho /\ l.result.alto = l.dims.alto
              /\ Within(l.result.ancho, sb.xmin, sb.xmax)
              /\ Within(l.result.alto, sb.ymin, sb.ymax)
        /\ ( /\ l.layout_optimo # None
             /\ ~( /\ Within(l.dims.ancho, sb.xmin, sb.xmax)
                   /\ Within(l.dims.alto, sb.ymin, sb.ymax) ) )
              => l.result = None

\* One objective got a LayoutResult, the other chose a grid that is as wide
\* as the bed allows but too high, and got None.
C9_Witness ==
    /\ \E l \in Layouts : l.result # None
    /\ \E l \in Layouts :
          /\ l.layout_optimo # None
          /\ Within(l.dims.ancho, sb.xmin, sb.xmax)
          /\ l.dims.alto > sb.ymax
          /\ l.result = None

\* The pairs _find_intermediate_layout may choose from for layout l: within
\* the bounds, of the required product, inside the bed with margins.
FeasibleFactors(l) ==
    Only({ { t \in (l.bounds.tiles_x_min..l.bounds.tiles_x_max)
                     \X (l.bounds.tiles_y_min..l.bounds.tiles_y_max) :
               /\ t[1] * t[2] = Ceil(l.metrics.volumen, l.metrics.tiros_minimos)
               /\ \E d \in {GridDims(env, t[1], t[2])} :
                     /\ Within(d[1], sb.xmin, sb.xmax)
                     /\ Within(d[2], sb.ymin, sb.ymax) }
           : env \in {LayoutEnv(l.engine, params, sb, l.objective)} })

GridArea(l, t) ==
    Only({ d[1] * d[2]
           : d \in {GridDims(LayoutEnv(l.engine, params, sb, l.objective), t[1], t[2])} })

\* C10: in the intermediate case the grid chosen is a pair within the
\* bounds whose product is ceil(volume / minimum_shots), whose bounding box
\* with margins is inside the bed and whose area is least among such pairs;
\* with no such pair it is the maximal grid.
C10_IntermediateGrid ==
    \A l \in Layouts : (l.bounds # None /\ l.tipo_planilla = "intermedia") =>
        \E F \in {FeasibleFactors(l)} :
            IF F # {}
            THEN /\ <<l.layout_optimo.tiles_x, l.layout_optimo.tiles_y>> \in F
                 /\ \E chosen \in {GridArea(l, <<l.layout_optimo.tiles_x,
                                                 l.layout_optimo.tiles_y>>)} :
                       \A t \in F : chosen <= GridArea(l, t)
            ELSE l.layout_optimo = MaximalGrid(l.bounds)

\* One objective chose among several feasible pairs, and not the first the
\* loops meet; the other had none and took the maximal grid.
C10_Witness ==
    /\ \E l \in Layouts :
          /\ l.bounds # None /\ l.tipo_planilla = "intermedia"
          /\ Cardinality(FeasibleFactors(l)) >= 2
          /\ \E t \in FeasibleFactors(l) : t[1] < l.layout_optimo.tiles_x
          /\ l.result # None
    /\ \E l \in Layouts :
          /\ l.bounds # None /\ l.tipo_planilla = "intermedia"
          /\ FeasibleFactors(l) = {}
          /\ l.layout_optimo = MaximalGrid(l.bounds)


ShotsNeeded(volumen, total_tiles) == Max2(1, Ceil(volumen, total_tiles))

ShotOps == {"tiros_necesarios", "_compute_tiros", "calculate_production_metrics"}

BoxWidth(b) == b[3] - b[1]
BoxHeight(b) == b[4] - b[2]
BoxArea(b) == BoxWidth(b) * BoxHeight(b)

\* The box calculate_global_bbox returns for the motif and the gaps of the
\* recorded call on a grid of tiles_x by tiles_y.
BboxOf(c, tiles_x, tiles_y) ==
    calculate_global_bbox(params, SlotWith(c.pattern_data), EmptyCache,
                          tiles_x, tiles_y, c.medianil_x, c.medianil_y, "width")

\* C13: for a fixed cached motif and fixed medianil_x, medianil_y >= 0 the
\* width, the height and the area of the box calculate_global_bbox returns
\* do not decrease when tiles_x or tiles_y grows by one, for offsets of
\* either sign.
C13_BboxMonotonic ==
    call # None /\ call.op = "calculate_global_bbox" =>
        \A more \in {BboxOf(call, call.tiles_x + 1, call.tiles_y),
                      BboxOf(call, call.tiles_x, call.tiles_y + 1)} :
            /\ BoxWidth(call.result) <= BoxWidth(more)
            /\ BoxHeight(call.result) <= BoxHeight(more)
            /\ BoxArea(call.result) <= BoxArea(more)

\* A grid of a motif with negative dx3 and dy2 whose box grows to the left
\* when a column is added.
C13_Witness ==
    /\ call # None /\ call.op = "calculate_global_bbox"
    /\ call.pattern_data.dx3 < 0 /\ call.pattern_data.dy2 < 0
    /\ call.tiles_x >= 3 /\ call.tiles_y >= 2
    /\ BboxOf(call, call.tiles_x + 1, call.tiles_y)[1] < call.result[1]
    /\ BoxWidth(call.result) < BoxWidth(BboxOf(call, call.tiles_x + 1, call.tiles_y))

\* The offset of the closed form for (row, col) in the recorded call.
ClosedFormOffset(c, row, col) ==
    <<(col \div 2) * c.pattern_data.dx3 + (col % 2) * c.pattern_data.dx2
        + col * c.medianil_x,
      (col \div 2) * c.pattern_data.dy3 + (col % 2) * c.pattern_data.dy2
        + row * (Height(c.pattern_data.poly1) + c.medianil_y)>>

\* C19: at row r and column c the assembler places the base polygon when
\* c = 0, the second-tile polygon when c is odd and the third-tile polygon
\* when c is even and at least 2, at x = floor(c/2)*dx3 + (c mod 2)*dx2 +
\* c*medianil_x and y = floor(c/2)*dy3 + (c mod 2)*dy2 + r*(h1 + medianil_y);
\* from an even column to the next the offset grows by (dx2, dy2), from an
\* odd one by (dx3 - dx2, dy3 - dy2), plus medianil_x each time.
C19_ClosedFormOffsets ==
    call # None /\ call.op = "calculate_global_bbox" =>
        \A rc \in DOMAIN call.placement :
            \E t \in {call.placement[rc]}, pd \in {call.pattern_data} :
                /\ t.current_poly = (IF rc[2] = 0 THEN 1
                                     ELSE IF rc[2] % 2 = 1 THEN 2 ELSE 3)
                /\ t.offset = ClosedFormOffset(call, rc[1], rc[2])
                /\ rc[2] > 0 =>
                      \E prev \in {call.placement[<<rc[1], rc[2] - 1>>].offset} :
                          t.offset =
                            IF rc[2] % 2 = 1
                            THEN <<prev[1] + pd.dx2 + call.medianil_x, prev[2] + pd.dy2>>
                            ELSE <<prev[1] + (pd.dx3 - pd.dx2) + call.medianil_x,
                                   prev[2] + (pd.dy3 - pd.dy2)>>

\* A grid of two rows and five columns (the branches for columns 3 and 4
\* are taken) with both gaps and with offsets of either sign.
C19_Witness ==
    /\ call # None /\ call.op = "calculate_global_bbox"
    /\ call.tiles_x = 5 /\ call.tiles_y = 2
    /\ call.medianil_x = 1 /\ call.medianil_y = 1
    /\ call.pattern_data.dx2 = 3 /\ call.pattern_data.dy2 = -2
    /\ call.pattern_data.dx3 = 4 /\ call.pattern_data.dy3 = -3
    /\ call.placement[<<1, 3>>].offset = ClosedFormOffset(call, 1, 3)
    /\ call.placement[<<1, 4>>].offset = ClosedFormOffset(call, 1, 4)
    /\ call.placement[<<1, 3>>].offset # call.placement[<<0, 3>>].offset

\* C14: for an orthogonal polygon, with or without holes, rotated_copy by
\* 90, 180 or 270 keeps calculate_polygon_area; by 90 and 270 the width and
\* the height of the bounding box change places, by 180 they stay.
C14_RotationKeepsArea ==
    call # None /\ call.op = "rotated_copy" =>
        \E before \in {OrthoPoly_aabb(call.poly)},
           after \in {OrthoPoly_aabb(call.result)} :
            /\ calculate_polygon_area(call.result) = calculate_polygon_area(call.poly)
            /\ call.rot % 360 \in {90, 270} =>
                  /\ BoxWidth(after) = BoxHeight(before)
                  /\ BoxHeight(after) = BoxWidth(before)
            /\ call.rot % 360 = 180 =>
                  /\ BoxWidth(after) = BoxWidth(before)
                  /\ BoxHeight(after) = BoxHeight(before)

\* The square with one hole, area 30, turned by 90: a different polygon of
\* the same area.
C14_Witness ==
    /\ call # None /\ call.op = "rotated_copy" /\ call.rot = 90
    /\ Len(call.poly.holes) = 1
    /\ calculate_polygon_area(call.poly) = 30
    /\ calculate_polygon_area(call.result) = 30
    /\ call.result # call.poly

(***************************************************************************)
(* Properties of OrthoPoly objects.                                        *)
(***************************************************************************)
\* An operation on an OrthoPoly object has just been done.
IsPolyOp == polyop'.n = polyop.n + 1

\* Every object there was is as it was.
ObjectsUnchanged == \A id \in DOMAIN heap : heap'[id] = heap[id]

\* The operation returned an object that did not exist before.
ReturnsNewObject ==
    /\ polyop'.returned # None
    /\ polyop'.returned.id \notin DOMAIN heap
    /\ polyop'.returned.id \in DOMAIN heap'

LastUse(uses, key) ==
    IF \E i \in DOMAIN uses : uses[i] = key
    THEN CHOOSE i \in DOMAIN uses :
            uses[i] = key /\ \A j \in DOMAIN uses : uses[j] = key => j <= i
    ELSE 0

\* The stored key whose last store or successful get is the oldest.
LeastRecentlyUsed ==
    CHOOSE k \in StoredKeys(ncache) :
        \A other \in StoredKeys(ncache) :
            LastUse(cop.uses, k) <= LastUse(cop.uses, other)

\* C16: after any sequence of store and get on a NestingCache of max_size
\* N the store holds at most N entries, and a store of a new key into a
\* full store evicts exactly the key whose last use (store or successful
\* get) is the oldest.
C16_BoundedLru ==
    /\ [](ncache # None => Len(ncache.cache) <= ncache.max_size)
    /\ [][ (/\ cop'.name = "store"
            /\ cop'.key \notin StoredKeys(ncache)
            /\ Len(ncache.cache) = ncache.max_size)
          => StoredKeys(ncache')
               = (StoredKeys(ncache) \ {LeastRecentlyUsed}) \cup {cop'.key} ]_vars

\* A store of capacity 2 took key1, key2, a get of key1, then key3: key2
\* was evicted.
C16_Witness ==
    /\ ncache # None /\ ncache.max_size = 2
    /\ cop.name = "store" /\ cop.uses = <<[id |-> "key1"], [id |-> "key2"], [id |-> "key1"], [id |-> "key3"]>>
    /\ StoredKeys(ncache) = {[id |-> "key1"], [id |-> "key3"]}

\* Whether the last store or clear on the slot was a store with key k.
LastSlotOpStored(k) == cop.slot.name = "store" /\ cop.slot.key = k

\* C17: is_valid(k) is true exactly when the last store or clear was a
\* store with key k; a get(k) of the key of the slot returns the stored
\* value and adds exactly one to hit_count; after clear() is_valid is false
\* for every key and pattern_data is empty.
C17_SlotValidity ==
    /\ [](ncache # None =>
            /\ \A k \in CacheKeys : CacheIsValid(ncache, k) <=> LastSlotOpStored(k)
            /\ cop.slot.name = "clear" =>
                  /\ ncache.pattern_data = None
                  /\ \A k \in CacheKeys : ~CacheIsValid(ncache, k))
    /\ [][ (cop'.name = "get" /\ LastSlotOpStored(cop'.key))
          => /\ cop'.returned = ncache.pattern_data
             /\ ncache.pattern_data \in CacheData
             /\ ncache'.hit_count = ncache.hit_count + 1
             /\ ncache'.miss_count = ncache.miss_count ]_vars

\* The third operation is a get(k) right after store(v, k): the value
\* came back, and k is the one valid key.
C17_Witness ==
    /\ ncache # None
    /\ cop.name = "get" /\ cop.n = 3 /\ cop.uses = <<[id |-> "key2"], [id |-> "key2"]>>
    /\ cop.slot = [name |-> "store", key |-> [id |-> "key2"]]
    /\ cop.returned = [key |-> "value"] /\ ncache.pattern_data = [key |-> "value"]
    /\ CacheIsValid(ncache, [id |-> "key2"]) /\ ~CacheIsValid(ncache, [id |-> "key1"])

(***************************************************************************)
(* Properties of the layout service.                                       *)
(***************************************************************************)
\* A tile count of the request that is a number and not positive.
NotPositive(v) == v # None /\ v.num <= 0

\* C18: optimize_layout never raises; with tiles_x <= 0 or tiles_y <= 0 the
\* response has success False and no layout, and calculate_global_bbox was
\* not called; an exception raised inside becomes success False with the
\* text of the exception as message; a response with success True has
\* planilla = tiles_x * tiles_y and the objective of the request.
C18_OptimizeLayoutNeverRaises ==
    call # None /\ call.op = "optimize_layout" =>
        /\ call.result.raised = None
        /\ call.result.response # None
        /\ (NotPositive(call.request.tiles_x) \/ NotPositive(call.request.tiles_y)) =>
              /\ call.result.response.success = FALSE
              /\ call.result.response.layout = None
              /\ call.result.bbox_calls = 0
        /\ call.body.raised # None =>
              /\ call.result.response.success = FALSE
              /\ call.result.response.layout = None
              /\ call.result.response.message = call.body.raised.text
        /\ call.result.response.success =>
              /\ call.result.response.layout.planilla
                    = call.request.tiles_x.num * call.request.tiles_y.num
              /\ call.result.response.layout.objective = call.request.objective

\* A request of 2 x 3 tiles whose left margin is no number: the bounding
\* box was computed, the sum raised a TypeError, and the response carries
\* its text with success False.
C18_Witness ==
    /\ call # None /\ call.op = "optimize_layout"
    /\ call.request.tiles_x = Num(2) /\ call.request.tiles_y = Num(3)
    /\ call.body.raised = TypeErrorAdd /\ call.body.bbox_calls = 1
    /\ call.result.raised = None
    /\ call.result.response = LayoutResponse(FALSE, None, TypeErrorAdd.text)

(***************************************************************************)
(* Properties of the layout bounds.                                        *)
(***************************************************************************)
\* The width with side margins of one row of n tiles, and the height with
\* gripper margins of m rows of tiles_x tiles, for the layout l.
RowWidth(l, n) ==
    GridDims(LayoutEnv(l.engine, params, sb, l.objective), n, 1)[1]
ColumnHeight(l, tiles_x, m) ==
    GridDims(LayoutEnv(l.engine, params, sb, l.objective), tiles_x, m)[2]

\* C20: when _calculate_layout_bounds returns bounds, tiles_x_min is the
\* least n in 1..100 whose one-row width plus side margins is >= the bed
\* minimum width, and tiles_y_min the least m in 1..100 whose height with
\* tiles_x_min columns plus gripper margins is >= the bed minimum height.
C20_MinimalBoundsAreLeast ==
    \A l \in Layouts : l.bounds # None =>
        /\ l.bounds.tiles_x_min \in 1..MaxTiles
        /\ RowWidth(l, l.bounds.tiles_x_min) >= sb.xmin
        /\ \A n \in 1..(l.bounds.tiles_x_min - 1) : RowWidth(l, n) < sb.xmin
        /\ l.bounds.tiles_y_min \in 1..MaxTiles
        /\ ColumnHeight(l, l.bounds.tiles_x_min, l.bounds.tiles_y_min) >= sb.ymin
        /\ \A m \in 1..(l.bounds.tiles_y_min - 1) :
              ColumnHeight(l, l.bounds.tiles_x_min, m) < sb.ymin

\* Bounds whose minimal grid needs several columns and several rows, the
\* row of tiles_x_min tiles being exactly as wide as the bed minimum.
C20_Witness ==
    \E l \in Layouts :
        /\ l.bounds # None
        /\ l.bounds.tiles_x_min > 1 /\ l.bounds.tiles_y_min > 1
        /\ RowWidth(l, l.bounds.tiles_x_min) = sb.xmin
        /\ RowWidth(l, l.bounds.tiles_x_min - 1) < sb.xmin

(***************************************************************************)
(* Properties of _calculate_layout_bounds, loop by loop.                   *)
(***************************************************************************)
Loops == {"x_min", "y_min", "x_max", "y_max"}

\* C21: _calculate_layout_bounds terminates for every bounding-box
\* function, also one that does not grow with the tile count and one that
\* never exceeds the bed maximum: each of its four loops makes at most 101
\* bounding-box evaluations, and when the bed minimum width or height is
\* not reached with 100 tiles None is returned.
C21_BoundsTerminate ==
    /\ [](lb # None =>
            /\ \A loop \in Loops : lb.evals[loop] <= MaxTiles + 1
            /\ (/\ lb.pc = "returned"
                /\ \/ BboxDims(lb.f, MaxTiles, 1)[1] < lb.x_min_roland
                   \/ BboxDims(lb.f, lb.tiles_x_min, MaxTiles)[2] < lb.y_min_roland)
               => lb.returned = None)
    /\ <>(lb # None /\ lb.pc = "returned")

\* The box never grows and never exceeds the bed maximum: the run returned
\* after the two loops towards the maximal grid went all the way.
C21_Witness ==
    /\ lb # None /\ lb.pc = "returned" /\ lb.returned # None
    /\ lb.f.dw = 0 /\ lb.f.dh = 0
    /\ lb.evals["x_max"] = MaxTiles /\ lb.evals["y_max"] = MaxTiles

\* C22: every tuple (tiles_x_min, tiles_y_min, tiles_x_max, tiles_y_max)
\* _calculate_layout_bounds returns has 1 <= tiles_x_min <= tiles_x_max <=
\* 100 and 1 <= tiles_y_min <= tiles_y_max <= 100.
C22_BoundsWithinCap ==
    (lb # None /\ lb.pc = "returned" /\ lb.returned # None) =>
        /\ 1 <= lb.returned.tiles_x_min
        /\ lb.returned.tiles_x_min <= lb.returned.tiles_x_max
        /\ lb.returned.tiles_x_max <= MaxTiles
        /\ 1 <= lb.returned.tiles_y_min
        /\ lb.returned.tiles_y_min <= lb.returned.tiles_y_max
        /\ lb.returned.tiles_y_max <= MaxTiles

(***************************************************************************)
(* Properties of the selection between the base orientations.              *)
(***************************************************************************)
KeyOf(objective, c) == ObjectiveKey(objective, c.gwidth, c.gheight, c.garea)

\* Components i of the keys a and b are equal within eps.
EqualWithin(a, b, i, eps) == a[i] - b[i] <= eps /\ b[i] - a[i] <= eps

\* a is smaller than b in the lexicographic order with tolerance: at the
\* first component where they differ by more than eps, a is the smaller.
SmallerWithin(a, b, eps) ==
    \E i \in 1..3 :
        /\ a[i] < b[i] - eps
        /\ \A j \in 1..(i - 1) : EqualWithin(a, b, j, eps)

\* C23: when both base orientations yield a complete motif, the one
\* returned has the smaller objective key in the lexicographic order with
\* tolerance; when the keys are equal within epsilon in all three
\* components the 90 orientation is returned; when only one orientation is
\* complete that one is returned.
C23_BestOrientation ==
    call # None /\ call.op = "global_best" =>
        /\ (call.c90 # None /\ call.c270 # None) =>
              \E k90 \in {KeyOf(call.objective, call.c90)},
                 k270 \in {KeyOf(call.objective, call.c270)} :
                  /\ SmallerWithin(k270, k90, call.eps) => call.result = call.c270
                  /\ SmallerWithin(k90, k270, call.eps) => call.result = call.c90
                  /\ (\A i \in 1..3 : EqualWithin(k90, k270, i, call.eps))
                        => call.result = call.c90
                  /\ call.result \in {call.c90, call.c270}
        /\ (call.c90 = None /\ call.c270 # None) => call.result = call.c270
        /\ (call.c90 # None /\ call.c270 = None) => call.result = call.c90
        /\ (call.c90 = None /\ call.c270 = None) => call.result = None

\* Objective width, tolerance 2: the widths 5 and 4 and the heights 4 and
\* 5 are equal within the tolerance, the area 16 of the 270 candidate is
\* below 25 by more than the tolerance, and the 270 candidate was returned.
C23_Witness ==
    /\ call # None /\ call.op = "global_best"
    /\ call.objective = "width" /\ call.eps = 2
    /\ call.c90 = [rot1 |-> 90, gwidth |-> 5, gheight |-> 5, garea |-> 25]
    /\ call.c270 = [rot1 |-> 270, gwidth |-> 4, gheight |-> 4, garea |-> 16]
    /\ call.result = call.c270

(***************************************************************************)
(* The background worker and the shared cache.                             *)
(***************************************************************************)
\* The threads whose run() has not returned.
RunningWorkers == {id \in DOMAIN workers : workers[id].pc # "finished"}

\* The cache slots of the engine of TileTab.
SharedSlots == <<nesting_cache_width, nesting_cache_height>>

\* C24: at most one NestingWorker runs at any time, and it is the one
\* TileTab holds as active; a nesting request made while a worker is
\* active is dropped and starts no thread; a step of a worker thread
\* leaves the cache slots of the engine of TileTab as they were, and the
\* slots change only in a step of the main thread, in the completion
\* handler (called for a delivered result or for a cached motif).
C24_SingleWriter ==
    /\ [](/\ Cardinality(RunningWorkers) <= 1
          /\ \A id \in RunningWorkers : active_worker = [id |-> id])
    /\ [][/\ wlog'.dropped > wlog.dropped =>
                /\ active_worker # None
                /\ workers' = workers
                /\ active_worker' = active_worker
          /\ wlog'.thread = "worker" => SharedSlots' = SharedSlots
          /\ SharedSlots' # SharedSlots =>
                /\ wlog'.thread = "main"
                /\ wlog'.handler \in {"cached", "result_ready"}]_vars

\* A request was dropped while a worker was active, and the result of that
\* worker has been stored in a slot by the completion handler.
C24_Witness ==
    /\ wlog.dropped > 0
    /\ wlog.handler = "result_ready"
    /\ wlog.completion.stored # None
    /\ Len(workers) = 1

\* C25: when the completion handler has run for a result a worker
\* delivered, it worked with the context of the request that started that
\* worker (objective, tile counts, bed limits, signature), and the motif
\* it stored went to the slot of the objective of that request.
C25_HandlerUsesRequestContext ==
    wlog.handler = "result_ready" =>
        /\ wlog.completion.ctx = wlog.completion.request
        /\ wlog.completion.stored # None =>
              wlog.completion.stored.objective
                  = wlog.completion.request.engine_args.objective

\* C28: when the last run of the completion handler was for a request of
\* objective O, worked with the context of that request and completed,
\* and the signature of the form and the parameters is still the one of
\* that request, a new request for O takes the cached path: the stored
\* signature is the current one, the motif in the slot is reused and no
\* worker is started.
C28_RepeatedRunReusesCache ==
    [][\A objective \in {"width", "height"} :
          (/\ RunNestingOptimization(objective)
           /\ wlog.completion # None
           /\ wlog.completion.completed
           /\ wlog.completion.ctx = wlog.completion.request
           /\ wlog.completion.request.engine_args.objective = objective
           /\ wlog.completion.request.signature = build_cache_signature(params, sb))
          => /\ cache_signatures[objective] = build_cache_signature(params, sb)
             /\ wlog'.handler = "cached"
             /\ workers' = workers]_vars

(***************************************************************************)
(* Events handled inside the search, and motifs of an older geometry.      *)
(***************************************************************************)
\* C26: the key a call of calculate_optimal_nesting stored with its motif
\* is the key of the parameters the motif was computed from, also when
\* the parameter object was written between the stages of the search.
C26_KeyDescribesGeometry ==
    (search # None /\ search.pc = "returned" /\ search.stored # None) =>
        search.stored = GenerateCacheKey(search.built, search.sp[1], search.sp[2],
                                         search.sp[3], search.objective)

\* C27: calculate_global_bbox computes the box from the motif of a slot
\* only when the key of that slot is the key of the parameters as they
\* are now.
C27_BboxFromCurrentMotif ==
    (call # None /\ call.op = "calculate_global_bbox" /\ call.from_motif) =>
        call.slot_key = call.current_key

(***************************************************************************)
(* The grid that is drawn and the grid that is measured.                   *)
(***************************************************************************)
\* C29: for a motif, a grid of tiles_x x tiles_y tiles and two gaps,
\* draw_tiling_pattern places at every (row, col) the polygon and the
\* offsets calculate_global_bbox takes there, and the box of what it
\* draws, before the margin shift, has the width and the height of the box
\* calculate_global_bbox returns.
C29_DrawnGridIsMeasuredGrid ==
    (call # None /\ call.op = "draw_tiling_pattern") =>
        /\ \E placement \in {GridPlacement(call.pattern_data, call.tiles_x,
                                           call.tiles_y, call.medianil_x,
                                           call.medianil_y)} :
              /\ DOMAIN call.positions = DOMAIN placement
              /\ \A rc \in DOMAIN placement :
                    /\ call.positions[rc].poly = placement[rc].current_poly
                    /\ <<call.positions[rc].ox, call.positions[rc].oy>>
                           = placement[rc].offset
        /\ \E bbox \in {calculate_global_bbox(params, SlotWith(call.pattern_data),
                                              EmptyCache, call.tiles_x, call.tiles_y,
                                              call.medianil_x, call.medianil_y,
                                              "width")} :
              /\ call.layout[3] - call.layout[1] = bbox[3] - bbox[1]
              /\ call.layout[4] - call.layout[2] = bbox[4] - bbox[2]

\* A grid of 5 x 2 tiles with both gaps was drawn, of a motif whose second
\* and third tiles are of different shapes and lie at different offsets.
C29_Witness ==
    /\ call # None /\ call.op = "draw_tiling_pattern"
    /\ call.tiles_x = 5 /\ call.tiles_y = 2
    /\ call.medianil_x = 1 /\ call.medianil_y = 1
    /\ call.pattern_data.poly2T # call.pattern_data.poly3T
    /\ call.pattern_data.dx2 = -2 /\ call.pattern_data.dx3 = 4
    /\ call.pattern_data.dy2 = 3 /\ call.pattern_data.dy3 = -3

(***************************************************************************)
(* The intermediate branch and the minimum shots.                          *)
(***************************************************************************)
\* C30: for a volume of at least 1 and bounds of at least one tile,
\* _find_optimal_layout takes the intermediate branch only with minimum
\* shots of at least 2, so math.ceil(volumen / tiros_minimos) raises no
\* ZeroDivisionError; with minimum shots 0 the maximal grid is chosen, and
\* with minimum shots 1 the class is not the intermediate one.
C30_IntermediateNeedsTwoShots ==
    (call # None /\ call.op = "_find_optimal_layout") =>
        /\ call.metrics.volumen >= 1
        /\ call.branch.tipo_planilla = "intermedia" =>
              /\ call.metrics.tiros_minimos >= 2
              /\ call.branch.total_tiles_necesario
                     = Num(Ceil(call.metrics.volumen, call.metrics.tiros_minimos))
        /\ call.metrics.tiros_minimos = 0 => call.branch.tipo_planilla = "maxima"
        /\ call.metrics.tiros_minimos = 1 => call.branch.tipo_planilla # "intermedia"

\* Minimum shots 0 with a volume that one sheet of the maximal grid covers:
\* one shot either way, and the maximal grid is chosen.
C30_Witness ==
    /\ call # None /\ call.op = "_find_optimal_layout"
    /\ call.metrics.tiros_minimos = 0
    /\ call.metrics.volumen = 2
    /\ call.metrics.planos_min = 1 /\ call.metrics.planos_max = 4
    /\ call.metrics.tiros_con_max = 1
    /\ call.branch.tipo_planilla = "maxima"

====
